---- MODULE Spec2Model ----
(***************************************************************************)
(* Model of the agent task-dispatch core, be/src/agent/task_worker_pool.cpp *)
(*                                                                         *)
(* Threads are the submitters (callers of submit_task) and the worker      *)
(* threads of each pool.  A step of the model is one critical section or   *)
(* one blocking call of a thread.  The process-wide statics                *)
(* (_s_task_signatures, the three count maps, _s_report_version and the    *)
(* function-static s_worker_count) are shared by every pool.               *)
(*                                                                         *)
(* uint32_t counters are kept as the two's-complement representative n of  *)
(* the stored value v (v = n when n >= 0, v = 2^32 + n when n < 0), so     *)
(* that +1, -1 and the test against 0 are the machine's modular ones.      *)
(***************************************************************************)
EXTENDS Integers, Sequences, FiniteSets, TLC

\* ---------------------------------------------------------------- bounds
\* submit_task calls in a behaviour, and distinct signatures they carry
MaxSubmits == 2
\* worker threads of the push pool (normal and high priority together)
MaxPushWorkers == 2
\* distinct task signatures
MaxSignatures == 3
\* source backends of a clone request
MaxSrcBackends == 2
\* file names in a remote listing
MaxFiles == 3
\* tablet versions
MaxVersion == 3
\* submit_task calls in a behaviour that copies the files of a clone
MaxCloneSubmits == 1
\* values of the interval knobs of the reporter pools, in seconds
MaxIntervalSeconds == 2

\* ------------------------------------------------------ program constants
TASK_FINISH_MAX_RETRY == 3

DOWNLOAD_FILE_MAX_RETRY == 3

PUSH_MAX_RETRY == 1

\* -------------------------------------------------------------- universe
\* The pools of the model: one pool running the generic worker loop, the
\* two pools running the push worker loop and the clone pool.
Pools == {"CREATE_TABLE", "PUSH", "DELETE", "CLONE"}

PushPools == {"PUSH", "DELETE"}

TaskTypes == {"CREATE_TABLE", "PUSH", "DELETE", "CLONE"}

Signatures == 1..MaxSignatures

Versions == 1..MaxVersion

VersionHashes == {1, 2}

\* TCloneReq, reduced to the fields the clone worker reads: the number of
\* entries of src_backends and the committed version.  A field that is not
\* set holds 0.
TCloneReq ==
    { r \in [src_backends : 0..MaxSrcBackends,
             isset_committed_version : BOOLEAN,
             committed_version : Versions \cup {0},
             isset_committed_version_hash : BOOLEAN,
             committed_version_hash : VersionHashes \cup {0}] :
        /\ (r.isset_committed_version <=> r.committed_version # 0)
        /\ (r.isset_committed_version_hash <=> r.committed_version_hash # 0) }

NoCloneReq ==
    [src_backends |-> 0,
     isset_committed_version |-> FALSE, committed_version |-> 0,
     isset_committed_version_hash |-> FALSE, committed_version_hash |-> 0]

Users == {"A", "B"}

\* keys of the per-user count maps: submit_task and the push callback use ""
\* for a task without resource_info
UserKeys == Users \cup {""}

\* TAgentTaskRequest, reduced to the fields the dispatcher reads.  A field
\* that is not set holds the default of its type.
TAgentTaskRequest ==
    { t \in [task_type : TaskTypes, signature : Signatures,
             isset_resource_info : BOOLEAN, user : UserKeys,
             isset_priority : BOOLEAN, priority : {"NORMAL", "HIGH"},
             clone_req : TCloneReq] :
        /\ (t.isset_resource_info => t.user \in Users)
        /\ (~t.isset_resource_info => t.user = "")
        /\ (~t.isset_priority => t.priority = "NORMAL")
        /\ (t.task_type \in {"CREATE_TABLE", "CLONE"} =>
               ~t.isset_resource_info /\ ~t.isset_priority)
        /\ (t.task_type # "CLONE" => t.clone_req = NoCloneReq) }

NoTask ==
    [task_type |-> "NONE", signature |-> 0, isset_resource_info |-> FALSE,
     user |-> "", isset_priority |-> FALSE, priority |-> "NORMAL",
     clone_req |-> NoCloneReq]

\* the task kinds the supervisor routes to a pool
RoutedTo(pool) == {t \in TAgentTaskRequest : t.task_type = pool}

WorkerIds == Pools \X (1..MaxPushWorkers)

PoolOf(w) == w[1]

VARIABLES
    config,                   \* the configuration knobs read by start()
    s_worker_count,           \* function-static of the push callback
    tasks,                    \* _tasks of each pool
    task_signatures,          \* _s_task_signatures
    total_task_user_count,    \* _s_total_task_user_count
    total_task_count,         \* _s_total_task_count
    running_task_user_count,  \* _s_running_task_user_count
    report_version,           \* _s_report_version, as the offset from boot
    submitting,               \* submit_task calls between record and push_back
    pc,                       \* position of each worker thread
    priority,                 \* lane of each push worker thread
    agent_task_req,           \* the task a worker holds
    user,                     \* local `user` of the push callback
    index,                    \* local `index` of the push callback
    finish_task_request,      \* the report a worker has built
    try_time,                 \* local try_time of _finish_task
    status,                   \* local `status` of the push and clone callbacks
    clone,                    \* locals of _clone_copy and of the clone callback
    local_dir,                \* files of the local destination directory
    request_report_version,   \* report_version of the tablet reporter's request
    finish_rpcs,              \* history: results of the finishTask RPCs made
                              \* for the report a worker holds
    submitted,                \* history: submit_task calls per (kind, signature)
    resubmitted,              \* history: submit_task calls made while the
                              \* signature was in _s_task_signatures
    executed,                 \* history: executions per (kind, signature)
    reports,                  \* history: _finish_task calls per (kind, signature)
    push,                     \* locals of the push callback while it pushes
    lock_owner,               \* the thread that holds each mutex
    next_task,                \* locals of _get_next_task_index
    submit_call,              \* the submit_task calls of the submitter threads
    report_task,              \* position of the task reporter thread
    report_disk_state,        \* position of the disk reporter thread
    alter,                    \* locals of _alter_table and of its callback
    master_port,              \* _master_info.network_address.port
    wait_duration,            \* the static _wait_duration, in seconds
    reporter                  \* the reporter threads, step by step

vars == <<config, s_worker_count, tasks, task_signatures,
          total_task_user_count, total_task_count, running_task_user_count,
          report_version, submitting, pc, priority,
          agent_task_req, user, index, finish_task_request, try_time,
          status, clone, local_dir, request_report_version, finish_rpcs,
          submitted, resubmitted, executed, reports,
          push, lock_owner, next_task, submit_call, report_task,
          report_disk_state, alter, master_port, wait_duration, reporter>>

\* the mutexes, the locals of the calls that take them, and the task and
\* disk reporter threads
fineVars == <<lock_owner, next_task, submit_call, report_task,
              report_disk_state, alter, master_port, wait_duration,
              reporter>>

\* the reporter pools: the static they share, the port they poll and their
\* threads
reporterVars == <<master_port, wait_duration, reporter>>

\* the mutexes and the threads modelled at the level of the mutexes
mutexVars == <<lock_owner, next_task, submit_call, report_task,
               report_disk_state>>

registryVars == <<task_signatures, total_task_user_count, total_task_count,
                  running_task_user_count>>

workerVars == <<pc, priority, agent_task_req, user, index,
                finish_task_request, try_time, status>>

cloneVars == <<clone, local_dir>>

historyVars == <<submitted, resubmitted, executed, reports>>

\* what the steps of submit_task and of the create-table and push workers
\* outside _finish_task leave alone
otherVars == <<cloneVars, request_report_version, finish_rpcs>>

\* what the steps of _clone_copy leave alone
copyFrame == <<push, fineVars, config, s_worker_count, tasks, registryVars, report_version,
               submitting, priority, agent_task_req, user, index,
               finish_task_request, try_time, request_report_version,
               finish_rpcs, historyVars>>

Keys == TaskTypes \X Signatures

KeyOf(t) == <<t.task_type, t.signature>>

\* ------------------------------------------------------------- start()
\* _worker_count as start() sets it for the pool's type
WorkerCount(pool, cfg) ==
    CASE pool = "PUSH" -> cfg.push_worker_count_normal_priority
                              + cfg.push_worker_count_high_priority
      [] pool = "DELETE" -> cfg.delete_worker_count
      [] pool = "CLONE" -> cfg.clone_worker_count
      [] OTHER -> cfg.create_table_worker_count

\* TFinishTaskRequest, reduced to the fields the claims read
NoReport ==
    [task_type |-> "NONE", signature |-> 0, status_code |-> "NONE",
     isset_finish_tablet_infos |-> FALSE, finish_tablet_infos |-> <<>>]

\* TTabletInfo, reduced to the fields the clone worker compares
TTabletInfo == [version : Versions, version_hash : VersionHashes]

NoTabletInfo == [version |-> 0, version_hash |-> 0]

\* The locals of the clone worker at the start of a loop iteration: src is
\* the number of source backends the for loop of _clone_copy has started
\* on, file the 1-based position in file_name_list of the file being
\* copied; download_calls counts the download_file calls made for that
\* file, drop_called tells whether _drop_table was called.  History of the
\* iteration: tablet_exists is what get_table told, shard_path_called and
\* load_header_called tell whether obtain_shard_path and load_header were
\* called; for the source backend the for loop is on, snapshot_made tells
\* whether make_snapshot returned a path, listed whether list_file_dir
\* succeeded, and downloaded counts the files downloaded with success.
NoClone ==
    [src |-> 0, file_list_str |-> <<>>, file_name_list |-> <<>>, file |-> 0,
     download_retry_time |-> 0, download_calls |-> 0,
     tablet_info |-> NoTabletInfo, drop_called |-> FALSE,
     tablet_exists |-> FALSE, shard_path_called |-> FALSE,
     load_header_called |-> FALSE, snapshot_made |-> FALSE,
     listed |-> FALSE, downloaded |-> 0]

\* The locals of the push callback between the selection and the report:
\* phase is the position in the branch on push_req.push_type, retry_time the
\* local of the retry loop; process_calls lists the results of the calls of
\* Pusher::process made for the task.
NoPush ==
    [phase |-> "init", push_type |-> "NONE", retry_time |-> 0,
     process_calls |-> <<>>]

\* the mutexes: a pool's name stands for its _worker_thread_lock
Locks == Pools \cup {"_s_task_signatures_lock", "_s_running_task_user_count_lock"}

\* threads that call submit_task
Submitters == {"submit_task"} \X (1..MaxSubmits)

\* the thread of the REPORT_TASK pool
ReportTaskThread == <<"REPORT_TASK", 1>>

Threads == WorkerIds \cup Submitters \cup {ReportTaskThread}

NoThread == <<"NONE", 0>>

\* the locals of _get_next_task_index at its entry
NoScan ==
    [i |-> 0, user |-> "", index |-> -1, improper_users |-> {},
     user_running_rate_le_user_total_rate |-> FALSE]

\* a submitter thread outside submit_task
NoCall == [pc |-> "idle", task |-> NoTask]

\* The locals of the alter callback and of _alter_table at the start of a
\* loop iteration: phase is the position in the call, status the local
\* `status`, alter_table_status the result of _show_alter_table_status
\* ("NONE" while it has not been called), drop_status that of _drop_table,
\* ret the local `ret`, finish_tablet_infos the local vector; alter_table_called, drop_called,
\* engine_called and get_tablet_info_called tell which of _alter_table,
\* _drop_table, schema_change / create_rollup_table and _get_tablet_info
\* were called.
NoAlter ==
    [phase |-> "init", alter_table_called |-> FALSE,
     status |-> "PALO_SUCCESS", alter_table_status |-> "NONE",
     drop_called |-> FALSE, drop_status |-> "NONE",
     engine_called |-> FALSE, ret |-> "OLAP_SUCCESS",
     get_tablet_info_called |-> FALSE, finish_tablet_infos |-> <<>>]

\* the pools of the three reporters
Reporters == {"REPORT_TASK", "REPORT_DISK_STATE", "REPORT_OLAP_TABLE"}

\* A reporter thread before start() of its pool: pc is its position,
\* interval_seconds the interval start() read from the configuration for
\* the pool; reported is the history of the ports under which it called
\* report(), waited that of the durations its timed waits were given.
\* A reporter thread: where it is in its loop, the interval its pool is
\* configured with, the last result of report_all_tablets_info, whether the
\* cycle it is in has sent a report, and as history the values of
\* _master_info.network_address.port at its report() calls and the
\* durations of its waits between two cycles.
NoReporter ==
    [pc |-> "none", interval_seconds |-> 0,
     report_all_tablets_info_status |-> "NONE", sent |-> FALSE,
     reported |-> {}, waited |-> {}]

\* every pool has at least one worker
Configs ==
    {c \in [push_worker_count_normal_priority : 0..MaxPushWorkers,
            push_worker_count_high_priority : 0..MaxPushWorkers,
            create_table_worker_count : {1},
            delete_worker_count : {1},
            clone_worker_count : {1}] :
        c.push_worker_count_normal_priority
            + c.push_worker_count_high_priority \in 1..MaxPushWorkers}

Init ==
    /\ config \in Configs
    /\ s_worker_count = 0
    /\ tasks = [p \in Pools |-> <<>>]
    /\ task_signatures = [k \in TaskTypes |-> {}]
    /\ total_task_user_count = [k \in TaskTypes |-> [u \in UserKeys |-> 0]]
    /\ total_task_count = [k \in TaskTypes |-> 0]
    /\ running_task_user_count = [k \in TaskTypes |-> [u \in UserKeys |-> 0]]
    /\ report_version = 0
    /\ submitting = {}
    /\ pc = [w \in WorkerIds |->
                IF w[2] > WorkerCount(PoolOf(w), config) THEN "none"
                ELSE IF PoolOf(w) \in PushPools THEN "start" ELSE "idle"]
    /\ priority = [w \in WorkerIds |-> "NORMAL"]
    /\ agent_task_req = [w \in WorkerIds |-> NoTask]
    /\ user = [w \in WorkerIds |-> ""]
    /\ index = [w \in WorkerIds |-> 0]
    /\ finish_task_request = [w \in WorkerIds |-> NoReport]
    /\ try_time = [w \in WorkerIds |-> 0]
    /\ status = [w \in WorkerIds |-> "PALO_SUCCESS"]
    /\ clone = [w \in WorkerIds |-> NoClone]
    /\ local_dir = {}
    /\ request_report_version = 0
    /\ finish_rpcs = [w \in WorkerIds |-> <<>>]
    /\ submitted = [k \in Keys |-> 0]
    /\ resubmitted = [k \in Keys |-> 0]
    /\ executed = [k \in Keys |-> 0]
    /\ reports = [k \in Keys |-> 0]
    /\ push = [w \in WorkerIds |-> NoPush]
    /\ lock_owner = [l \in Locks |-> NoThread]
    /\ next_task = [w \in WorkerIds |-> NoScan]
    /\ submit_call = [c \in Submitters |-> NoCall]
    /\ report_task = "idle"
    /\ report_disk_state = "idle"
    /\ alter = NoAlter
    /\ master_port = 0
    /\ wait_duration = 0
    /\ reporter = [r \in Reporters |-> NoReporter]

RECURSIVE SumOver(_, _)
SumOver(f, S) ==
    IF S = {} THEN 0
    ELSE LET x == CHOOSE y \in S : TRUE IN f[x] + SumOver(f, S \ {x})

\* number of submit_task calls made so far
TotalSubmitted == SumOver(submitted, DOMAIN submitted)

\* ------------------------------------------------- condition variable
\* a notify() that wakes nobody
Notify_Lost(pool, pcs) == {pcs}

\* _worker_thread_condition_lock.notify(): one of the threads blocked in
\* wait(), if there is any, leaves the wait and goes back to re-check the
\* queue under the pool mutex.
Notify(pool, pcs) ==
    LET waiters == {w \in DOMAIN pcs : PoolOf(w) = pool /\ pcs[w] = "wait"}
    IN IF waiters = {} THEN {pcs}
       ELSE {[pcs EXCEPT ![w] = "idle"] : w \in waiters}

\* ------------------------------------------------- _record_task_info
\* _record_task_info without the test for a present signature
RecordTaskInfo_NoDedup(sigs, tot_user, tot, task_type, signature, u) ==
    [ret |-> TRUE,
     sigs |-> [sigs EXCEPT ![task_type] = @ \cup {signature}],
     tot_user |-> IF task_type = "PUSH"
                  THEN [tot_user EXCEPT ![task_type][u] = @ + 1]
                  ELSE tot_user,
     tot |-> IF task_type = "PUSH"
             THEN [tot EXCEPT ![task_type] = @ + 1]
             ELSE tot]

\* the new registry, and the value returned
RecordTaskInfo(sigs, tot_user, tot, task_type, signature, u) ==
    IF signature \in sigs[task_type]
    THEN [ret |-> FALSE, sigs |-> sigs, tot_user |-> tot_user, tot |-> tot]
    ELSE [ret |-> TRUE,
          sigs |-> [sigs EXCEPT ![task_type] = @ \cup {signature}],
          tot_user |-> IF task_type = "PUSH"
                       THEN [tot_user EXCEPT ![task_type][u] = @ + 1]
                       ELSE tot_user,
          tot |-> IF task_type = "PUSH"
                  THEN [tot EXCEPT ![task_type] = @ + 1]
                  ELSE tot]

\* submit_task, up to the return of _record_task_info
SubmitRecord(pool, task) ==
    /\ LET u == IF task.isset_resource_info THEN task.user ELSE ""
           r == RecordTaskInfo(task_signatures, total_task_user_count,
                               total_task_count, task.task_type,
                               task.signature, u)
       IN /\ task_signatures' = r.sigs
          /\ total_task_user_count' = r.tot_user
          /\ total_task_count' = r.tot
          /\ submitting' = IF r.ret THEN submitting \cup {[pool |-> pool, task |-> task]}
                           ELSE submitting
    /\ submitted' = [submitted EXCEPT ![KeyOf(task)] = @ + 1]
    /\ resubmitted' = IF task.signature \in task_signatures[task.task_type]
                      THEN [resubmitted EXCEPT ![KeyOf(task)] = @ + 1]
                      ELSE resubmitted
    /\ UNCHANGED <<push, fineVars, config, s_worker_count, tasks, running_task_user_count,
                   report_version, workerVars, otherVars, executed, reports>>

\* submit_task, the block under _worker_thread_lock: push_back and notify
SubmitEnqueue(s) ==
    /\ s \in submitting
    /\ submitting' = submitting \ {s}
    /\ tasks' = [tasks EXCEPT ![s.pool] = Append(@, s.task)]
    /\ pc' \in Notify(s.pool, pc)
    /\ UNCHANGED <<push, fineVars, config, status, otherVars, s_worker_count, registryVars, report_version,
                   priority, agent_task_req, user, index,
                   finish_task_request, try_time, historyVars>>

\* ------------------------------------------------- _remove_task_info
\* _remove_task_info that clears the signature set of the type
RemoveTaskInfo_ClearsSet(sigs, tot_user, tot, running, task_type, signature, u) ==
    [sigs |-> [sigs EXCEPT ![task_type] = {}],
     tot_user |-> IF task_type = "PUSH"
                  THEN [tot_user EXCEPT ![task_type][u] = @ - 1]
                  ELSE tot_user,
     tot |-> IF task_type = "PUSH"
             THEN [tot EXCEPT ![task_type] = @ - 1]
             ELSE tot,
     running |-> IF task_type = "PUSH"
                 THEN [running EXCEPT ![task_type][u] = @ - 1]
                 ELSE running]

\* _remove_task_info that leaves _s_total_task_count alone
RemoveTaskInfo_KeepsTotal(sigs, tot_user, tot, running, task_type, signature, u) ==
    [sigs |-> [sigs EXCEPT ![task_type] = @ \ {signature}],
     tot_user |-> IF task_type = "PUSH"
                  THEN [tot_user EXCEPT ![task_type][u] = @ - 1]
                  ELSE tot_user,
     tot |-> tot,
     running |-> IF task_type = "PUSH"
                 THEN [running EXCEPT ![task_type][u] = @ - 1]
                 ELSE running]

\* _remove_task_info that leaves _s_running_task_user_count alone
RemoveTaskInfo_KeepsRunning(sigs, tot_user, tot, running, task_type, signature, u) ==
    [sigs |-> [sigs EXCEPT ![task_type] = @ \ {signature}],
     tot_user |-> IF task_type = "PUSH"
                  THEN [tot_user EXCEPT ![task_type][u] = @ - 1]
                  ELSE tot_user,
     tot |-> IF task_type = "PUSH"
             THEN [tot EXCEPT ![task_type] = @ - 1]
             ELSE tot,
     running |-> running]

RemoveTaskInfo(sigs, tot_user, tot, running, task_type, signature, u) ==
    [sigs |-> [sigs EXCEPT ![task_type] = @ \ {signature}],
     tot_user |-> IF task_type = "PUSH"
                  THEN [tot_user EXCEPT ![task_type][u] = @ - 1]
                  ELSE tot_user,
     tot |-> IF task_type = "PUSH"
             THEN [tot EXCEPT ![task_type] = @ - 1]
             ELSE tot,
     running |-> IF task_type = "PUSH"
                 THEN [running EXCEPT ![task_type][u] = @ - 1]
                 ELSE running]

\* ------------------------------------------------- _get_next_task_index
\* `user_running_rate <= user_total_rate` of the scan.  run1 is the uint32
\* value running + 1 (representative), thread_count the int32 argument;
\* the quotients are IEEE: x/0 is +inf for x > 0 and NaN for x = 0, a
\* comparison with NaN is false.  For the finite case the comparison of
\* the two rounded quotients is the comparison of the exact ones at the
\* magnitudes of the model.
RunningRateLeTotalRate(run1, thread_count, tot_user, tot) ==
    LET totalNaN == (tot = 0 /\ tot_user = 0)
        totalInf == (tot = 0 /\ tot_user # 0)
        runNaN == (thread_count = 0 /\ run1 = 0)
        runInf == (thread_count = 0 /\ run1 # 0)
    IN IF totalNaN \/ runNaN THEN FALSE
       ELSE IF runInf THEN totalInf
       ELSE IF totalInf THEN TRUE
       ELSE IF run1 < 0 THEN FALSE   \* run1 >= 2^31: the rate exceeds 1
       ELSE run1 * tot <= tot_user * thread_count

\* The scan loop from queue position i (1-based; the code's i is i - 1),
\* with the local `user` as the previous iterations left it.  The result is
\* the local `index` and the local `user` at the end of the loop.
\* the scan whose high priority lane keeps the last match instead of
\* breaking at the first
RECURSIVE ScanTasks_LastHigh(_, _, _, _, _, _, _, _, _)
ScanTasks_LastHigh(i, q, u0, improper_users, thread_count, lane, tot_user, tot, running) ==
    IF i > Len(q) THEN [index |-> -1, user |-> u0]
    ELSE LET task == q[i]
             u == IF task.isset_resource_info THEN task.user ELSE u0
             later == ScanTasks_LastHigh(i + 1, q, u, improper_users,
                                         thread_count, lane, tot_user, tot,
                                         running)
         IN IF lane = "HIGH"
            THEN IF task.isset_priority /\ task.priority = "HIGH" /\ later.index = -1
                 THEN [index |-> i - 1, user |-> u]
                 ELSE later
            ELSE IF u \in improper_users
            THEN later
            ELSE IF \/ running[task.task_type][u] = 0
                    \/ RunningRateLeTotalRate(
                           running[task.task_type][u] + 1, thread_count,
                           tot_user[task.task_type][u], tot[task.task_type])
            THEN [index |-> i - 1, user |-> u]
            ELSE ScanTasks_LastHigh(i + 1, q, u, improper_users \cup {u},
                                    thread_count, lane, tot_user, tot, running)

RECURSIVE ScanTasks(_, _, _, _, _, _, _, _, _)
ScanTasks(i, q, u0, improper_users, thread_count, lane, tot_user, tot, running) ==
    IF i > Len(q) THEN [index |-> -1, user |-> u0]
    ELSE LET task == q[i]
             u == IF task.isset_resource_info THEN task.user ELSE u0
         IN IF lane = "HIGH"
            THEN IF task.isset_priority /\ task.priority = "HIGH"
                 THEN [index |-> i - 1, user |-> u]
                 ELSE ScanTasks(i + 1, q, u, improper_users, thread_count,
                                lane, tot_user, tot, running)
            ELSE IF u \in improper_users
            THEN ScanTasks(i + 1, q, u, improper_users, thread_count,
                           lane, tot_user, tot, running)
            ELSE IF \/ running[task.task_type][u] = 0
                    \/ RunningRateLeTotalRate(
                           running[task.task_type][u] + 1, thread_count,
                           tot_user[task.task_type][u], tot[task.task_type])
            THEN [index |-> i - 1, user |-> u]
            ELSE ScanTasks(i + 1, q, u, improper_users \cup {u}, thread_count,
                           lane, tot_user, tot, running)

\* _get_next_task_index that falls back to the head for either lane
GetNextTaskIndex_HighFallsBack(thread_count, q, lane, tot_user, tot, running) ==
    LET scan == ScanTasks(1, q, "", {}, thread_count, lane,
                          tot_user, tot, running)
        fallback == scan.index = -1
        idx == IF fallback THEN 0 ELSE scan.index
        u == IF fallback
             THEN (IF q[1].isset_resource_info THEN q[1].user ELSE "")
             ELSE scan.user
    IN [index |-> idx,
        running |-> [running EXCEPT ![q[idx + 1].task_type][u] = @ + 1]]

\* _get_next_task_index that returns -1 for either lane when the scan
\* selected nothing
GetNextTaskIndex_NoFallback(thread_count, q, lane, tot_user, tot, running) ==
    LET scan == ScanTasks(1, q, "", {}, thread_count, lane,
                          tot_user, tot, running)
    IN IF scan.index = -1
       THEN [index |-> -1, running |-> running]
       ELSE [index |-> scan.index,
             running |-> [running EXCEPT
                             ![q[scan.index + 1].task_type][scan.user] = @ + 1]]

\* The whole function on a non-empty queue: the returned index and the new
\* running count map.
GetNextTaskIndex(thread_count, q, lane, tot_user, tot, running) ==
    LET scan == ScanTasks(1, q, "", {}, thread_count, lane,
                          tot_user, tot, running)
        fallback == scan.index = -1
        idx == IF fallback THEN 0 ELSE scan.index
        u == IF fallback
             THEN (IF q[1].isset_resource_info THEN q[1].user ELSE "")
             ELSE scan.user
    IN IF fallback /\ lane = "HIGH"
       THEN [index |-> -1, running |-> running]
       ELSE [index |-> idx,
             running |-> [running EXCEPT ![q[idx + 1].task_type][u] = @ + 1]]

\* q without its element at 0-based position idx (deque::erase)
Erase(q, idx) ==
    [j \in 1..(Len(q) - 1) |-> IF j <= idx THEN q[j] ELSE q[j + 1]]

\* ------------------------------------------------- _finish_task
\* a retry loop that does not break on success
FinishTask_NoBreak(w, client_status) ==
    /\ pc[w] = "finish"
    /\ try_time[w] < TASK_FINISH_MAX_RETRY
    /\ finish_rpcs' = [finish_rpcs EXCEPT ![w] = Append(@, client_status)]
    /\    IF try_time[w] + 1 < TASK_FINISH_MAX_RETRY
          THEN /\ try_time' = [try_time EXCEPT ![w] = @ + 1]
               /\ pc' = pc
          ELSE /\ try_time' = [try_time EXCEPT ![w] = 0]
               /\ pc' = [pc EXCEPT ![w] = "remove"]
    /\ UNCHANGED <<push, fineVars, config, status, cloneVars, request_report_version,
                   s_worker_count, tasks, registryVars,
                   report_version, submitting, priority,
                   agent_task_req, user, index, finish_task_request,
                   historyVars>>

\* a _finish_task that returns after its first RPC, whatever the result
FinishTask_NoRetry(w, client_status) ==
    /\ pc[w] = "finish"
    /\ try_time[w] < TASK_FINISH_MAX_RETRY
    /\ finish_rpcs' = [finish_rpcs EXCEPT ![w] = Append(@, client_status)]
    /\ try_time' = [try_time EXCEPT ![w] = 0]
    /\ pc' = [pc EXCEPT ![w] = "remove"]
    /\ UNCHANGED <<push, fineVars, config, status, cloneVars, request_report_version,
                   s_worker_count, tasks, registryVars,
                   report_version, submitting, priority,
                   agent_task_req, user, index, finish_task_request,
                   historyVars>>

\* One iteration of the retry loop, in which the RPC returns client_status.
FinishTask(w, client_status) ==
    /\ pc[w] = "finish"
    /\ try_time[w] < TASK_FINISH_MAX_RETRY
    /\ finish_rpcs' = [finish_rpcs EXCEPT ![w] = Append(@, client_status)]
    /\    IF client_status = "PALO_SUCCESS"
          THEN /\ pc' = [pc EXCEPT ![w] = "remove"]
               /\ try_time' = [try_time EXCEPT ![w] = 0]
          ELSE IF try_time[w] + 1 < TASK_FINISH_MAX_RETRY
          THEN /\ try_time' = [try_time EXCEPT ![w] = @ + 1]
               /\ pc' = pc
          ELSE /\ try_time' = [try_time EXCEPT ![w] = 0]
               /\ pc' = [pc EXCEPT ![w] = "remove"]
    /\ UNCHANGED <<push, fineVars, config, status, cloneVars, request_report_version,
                   s_worker_count, tasks, registryVars,
                   report_version, submitting, priority,
                   agent_task_req, user, index, finish_task_request,
                   historyVars>>

\* The call of _remove_task_info that ends a loop iteration of a worker;
\* the next iteration starts with fresh locals.
WorkerRemove(w) ==
    /\ pc[w] = "remove"
    /\ LET u == IF PoolOf(w) \in PushPools THEN user[w] ELSE ""
           r == RemoveTaskInfo(task_signatures, total_task_user_count,
                               total_task_count, running_task_user_count,
                               agent_task_req[w].task_type,
                               agent_task_req[w].signature, u)
       IN /\ task_signatures' = r.sigs
          /\ total_task_user_count' = r.tot_user
          /\ total_task_count' = r.tot
          /\ running_task_user_count' = r.running
    /\ pc' = [pc EXCEPT ![w] = "idle"]
    /\ agent_task_req' = [agent_task_req EXCEPT ![w] = NoTask]
    /\ user' = [user EXCEPT ![w] = ""]
    /\ index' = [index EXCEPT ![w] = 0]
    /\ finish_task_request' = [finish_task_request EXCEPT ![w] = NoReport]
    /\ try_time' = [try_time EXCEPT ![w] = 0]
    /\ status' = [status EXCEPT ![w] = "PALO_SUCCESS"]
    /\ clone' = [clone EXCEPT ![w] = NoClone]
    /\ finish_rpcs' = [finish_rpcs EXCEPT ![w] = <<>>]
    /\ UNCHANGED <<push, fineVars, config, local_dir, request_report_version,
                   s_worker_count, tasks, report_version, submitting,
                   priority, historyVars>>

\* ------------------------------------------------------- _clone_copy
\* A std::string is the sequence of its characters; the line feed is the
\* one-character string "\n".
data_0_dat ==
    <<"d", "a", "t", "a", "_", "0", ".", "d", "a", "t">>

data_1_dat ==
    <<"d", "a", "t", "a", "_", "1", ".", "d", "a", "t">>

header_hdr ==
    <<"h", "e", "a", "d", "e", "r", ".", "h", "d", "r">>

dot_hdr == <<".", "h", "d", "r">>

\* file names a source backend may list
FileNames == {data_0_dat, data_1_dat, header_hdr, dot_hdr}

\* std::string::substr(pos, n)
SubStr(str, pos, n) == [i \in 1..n |-> str[pos + i]]

npos == -1

\* std::string::find("\n", pos): the 0-based position of the first line
\* feed at or after pos, or npos
RECURSIVE Find(_, _)
Find(str, pos) ==
    IF pos >= Len(str) THEN npos
    ELSE IF str[pos + 1] = "\n" THEN pos
    ELSE Find(str, pos + 1)

\* the placement that appends every name
InsertFileName_PushBack(file_name_list, file_name) ==
    Append(file_name_list, file_name)

\* the if/else that places one name of the listing: push_back for a name
\* longer than 4 characters whose last 4 characters are ".hdr", insert at
\* begin() for any other name
InsertFileName(file_name_list, file_name) ==
    IF /\ Len(file_name) > 4
       /\ SubStr(file_name, Len(file_name) - 4, 4) = <<".", "h", "d", "r">>
    THEN Append(file_name_list, file_name)
    ELSE <<file_name>> \o file_name_list

\* the split loop from start_position, and the handling of the piece after
\* the last line feed
RECURSIVE SplitFileNames(_, _, _)
SplitFileNames(file_list_str, start_position, file_name_list) ==
    LET end_position == Find(file_list_str, start_position)
    IN IF end_position # npos
       THEN SplitFileNames(
                file_list_str, end_position + 1,
                InsertFileName(file_name_list,
                               SubStr(file_list_str, start_position,
                                      end_position - start_position)))
       ELSE IF start_position # Len(file_list_str)
       THEN InsertFileName(file_name_list,
                           SubStr(file_list_str, start_position,
                                  Len(file_list_str) - start_position))
       ELSE file_name_list

\* file_name_list as built from the listing
FileNameList(file_list_str) == SplitFileNames(file_list_str, 0, <<>>)

\* the sequences of at most n distinct names
RECURSIVE DistinctSeqs(_, _)
DistinctSeqs(names, n) ==
    IF n = 0 THEN {<<>>}
    ELSE LET shorter == DistinctSeqs(names, n - 1)
             longest == {q \in shorter : Len(q) = n - 1}
         IN shorter \cup
            UNION {{Append(q, x) :
                       x \in names \ {q[i] : i \in 1..Len(q)}} : q \in longest}

\* the names joined by line feeds
RECURSIVE JoinLines(_)
JoinLines(names) ==
    IF names = <<>> THEN <<>>
    ELSE IF Len(names) = 1 THEN names[1]
    ELSE names[1] \o <<"\n">> \o JoinLines(Tail(names))

\* What list_file_dir may return: the listing of at most MaxFiles distinct
\* files (ListedFiles), one per line, the last line with or without its
\* line feed.
ListedFiles == DistinctSeqs(FileNames, MaxFiles)

Listings ==
    LET bodies == {JoinLines(q) : q \in ListedFiles}
    IN bodies \cup {Append(b, "\n") : b \in bodies \ {<<>>}}

\* the entry of the local directory for file_name: sized tells whether its
\* size is the one get_length reported
LocalFile(file_name, sized) == [name |-> file_name, sized |-> sized]

\* the local directory after a download of file_name that left local_file
WriteLocal(dir, file_name, local_file) ==
    IF local_file = "unchanged" THEN dir
    ELSE {f \in dir : f.name # file_name}
             \cup {LocalFile(file_name, local_file = "full")}

\* results of make_snapshot: status OK with and without snapshot_path, and
\* any other status
MakeSnapshotResults == {"OK_WITH_PATH", "OK_WITHOUT_PATH", "FAILED"}

\* What a download_file call leaves at local_file_path: the file with the
\* reported size, a file of another size, or what was there before.  A
\* call that returns PALO_SUCCESS has written the file.
DownloadResults ==
    {r \in [download_status : {"PALO_SUCCESS", "PALO_ERROR"},
            local_file : {"full", "short", "unchanged"}] :
        /\ (r.download_status = "PALO_SUCCESS" => r.local_file # "unchanged")
        /\ (r.download_status # "PALO_SUCCESS" => r.local_file # "full")}

\* the for loop over src_backends is left at the end of an iteration when
\* the iteration succeeded or was the last one
AfterSource(w, copy_status) ==
    IF copy_status = "PALO_SUCCESS"
          \/ clone[w].src >= agent_task_req[w].clone_req.src_backends
    THEN "load_header" ELSE "make_snapshot"

\* make_snapshot on the next source backend, and for a snapshot with a
\* path the removal and creation of the local directory
CloneMakeSnapshot(w, result) ==
    /\ pc[w] = "make_snapshot"
    /\ LET src == clone[w].src + 1
           last == src >= agent_task_req[w].clone_req.src_backends
       IN IF result = "OK_WITH_PATH"
          THEN /\ status' = [status EXCEPT ![w] = "PALO_SUCCESS"]
               /\ local_dir' = {}
               /\ clone' = [clone EXCEPT ![w] =
                      [@ EXCEPT !.src = src, !.file_list_str = <<>>,
                                !.file_name_list = <<>>, !.file = 0,
                                !.download_retry_time = 0,
                                !.download_calls = 0,
                                !.snapshot_made = TRUE, !.listed = FALSE,
                                !.downloaded = 0]]
               /\ pc' = [pc EXCEPT ![w] = "list_file_dir"]
          ELSE /\ status' = [status EXCEPT ![w] = "PALO_ERROR"]
               /\ local_dir' = local_dir
               /\ clone' = [clone EXCEPT ![w] =
                      [@ EXCEPT !.src = src, !.file_list_str = <<>>,
                                !.file_name_list = <<>>, !.file = 0,
                                !.download_retry_time = 0,
                                !.download_calls = 0,
                                !.snapshot_made = FALSE, !.listed = FALSE,
                                !.downloaded = 0]]
               /\ pc' = [pc EXCEPT ![w] =
                            IF last THEN "load_header" ELSE "make_snapshot"]
    /\ UNCHANGED copyFrame

\* one call of list_file_dir returning download_status and, on success,
\* the listing file_list_str; after the loop, the split of the listing
CloneListDir(w, download_status, file_list_str) ==
    /\ pc[w] = "list_file_dir"
    /\ clone[w].download_retry_time < DOWNLOAD_FILE_MAX_RETRY
    /\ IF download_status # "PALO_SUCCESS"
       THEN IF clone[w].download_retry_time + 1 < DOWNLOAD_FILE_MAX_RETRY
            THEN /\ clone' = [clone EXCEPT ![w].download_retry_time = @ + 1]
                 /\ UNCHANGED <<pc, status>>
            ELSE /\ clone' = [clone EXCEPT ![w].download_retry_time = @ + 1]
                 /\ status' = [status EXCEPT ![w] = "PALO_ERROR"]
                 /\ pc' = [pc EXCEPT ![w] = "release_snapshot"]
       ELSE LET file_name_list == FileNameList(file_list_str)
            IN /\ clone' = [clone EXCEPT ![w] =
                      [@ EXCEPT !.file_list_str = file_list_str,
                                !.listed = TRUE,
                                !.file_name_list = file_name_list,
                                !.file = IF file_name_list = <<>> THEN 0 ELSE 1,
                                !.download_retry_time =
                                    IF file_name_list = <<>> THEN @ ELSE 0]]
               /\ pc' = [pc EXCEPT ![w] =
                            IF file_name_list = <<>> THEN "release_snapshot"
                            ELSE "get_length"]
               /\ UNCHANGED status
    /\ UNCHANGED <<local_dir, copyFrame>>

\* one call of get_length for the current file
CloneGetLength(w, download_status) ==
    /\ pc[w] = "get_length"
    /\ clone[w].download_retry_time < DOWNLOAD_FILE_MAX_RETRY
    /\ IF download_status # "PALO_SUCCESS"
       THEN IF clone[w].download_retry_time + 1 < DOWNLOAD_FILE_MAX_RETRY
            THEN /\ clone' = [clone EXCEPT ![w].download_retry_time = @ + 1]
                 /\ UNCHANGED <<pc, status>>
            ELSE /\ clone' = [clone EXCEPT ![w].download_retry_time = @ + 1]
                 /\ status' = [status EXCEPT ![w] = "PALO_ERROR"]
                 /\ pc' = [pc EXCEPT ![w] = "release_snapshot"]
       ELSE /\ clone' = [clone EXCEPT ![w] =
                   [@ EXCEPT !.download_retry_time = 0, !.download_calls = 0]]
            /\ pc' = [pc EXCEPT ![w] = "download_file"]
            /\ UNCHANGED status
    /\ UNCHANGED <<local_dir, copyFrame>>

\* a download loop in which a local file of another size is accepted
CloneDownloadFile_NoSizeCheck(w, r) ==
    /\ pc[w] = "download_file"
    /\ clone[w].download_retry_time < DOWNLOAD_FILE_MAX_RETRY
    /\ LET file_name == clone[w].file_name_list[clone[w].file]
           last == clone[w].file = Len(clone[w].file_name_list)
       IN /\ local_dir' = WriteLocal(local_dir, file_name, r.local_file)
          /\ IF r.download_status = "PALO_SUCCESS"
             THEN /\ clone' = [clone EXCEPT ![w] =
                         [@ EXCEPT !.file = IF last THEN @ ELSE @ + 1,
                                   !.download_retry_time =
                                       IF last THEN @ ELSE 0,
                                   !.download_calls = @ + 1,
                                   !.downloaded = @ + 1]]
                  /\ pc' = [pc EXCEPT ![w] =
                               IF last THEN "release_snapshot" ELSE "get_length"]
                  /\ UNCHANGED status
             ELSE IF clone[w].download_retry_time + 1 < DOWNLOAD_FILE_MAX_RETRY
             THEN /\ clone' = [clone EXCEPT ![w] =
                         [@ EXCEPT !.download_retry_time = @ + 1,
                                   !.download_calls = @ + 1]]
                  /\ UNCHANGED <<pc, status>>
             ELSE /\ clone' = [clone EXCEPT ![w] =
                         [@ EXCEPT !.download_retry_time = @ + 1,
                                   !.download_calls = @ + 1]]
                  /\ status' = [status EXCEPT ![w] = "PALO_ERROR"]
                  /\ pc' = [pc EXCEPT ![w] = "release_snapshot"]
    /\ UNCHANGED copyFrame

\* One call of download_file for the current file with result r, and the
\* check of the local size.  A success with the reported size ends the
\* loop and moves to the next file, or out of the file loop after the last
\* one; anything else is a failed try, and the third failed try ends the
\* file loop with PALO_ERROR.
CloneDownloadFile(w, r) ==
    /\ pc[w] = "download_file"
    /\ clone[w].download_retry_time < DOWNLOAD_FILE_MAX_RETRY
    /\ LET file_name == clone[w].file_name_list[clone[w].file]
           last == clone[w].file = Len(clone[w].file_name_list)
       IN /\ local_dir' = WriteLocal(local_dir, file_name, r.local_file)
          /\ IF r.download_status = "PALO_SUCCESS" /\ r.local_file = "full"
             THEN /\ clone' = [clone EXCEPT ![w] =
                         [@ EXCEPT !.file = IF last THEN @ ELSE @ + 1,
                                   !.download_retry_time =
                                       IF last THEN @ ELSE 0,
                                   !.download_calls = @ + 1,
                                   !.downloaded = @ + 1]]
                  /\ pc' = [pc EXCEPT ![w] =
                               IF last THEN "release_snapshot" ELSE "get_length"]
                  /\ UNCHANGED status
             ELSE IF clone[w].download_retry_time + 1 < DOWNLOAD_FILE_MAX_RETRY
             THEN /\ clone' = [clone EXCEPT ![w] =
                         [@ EXCEPT !.download_retry_time = @ + 1,
                                   !.download_calls = @ + 1]]
                  /\ UNCHANGED <<pc, status>>
             ELSE /\ clone' = [clone EXCEPT ![w] =
                         [@ EXCEPT !.download_retry_time = @ + 1,
                                   !.download_calls = @ + 1]]
                  /\ status' = [status EXCEPT ![w] = "PALO_ERROR"]
                  /\ pc' = [pc EXCEPT ![w] = "release_snapshot"]
    /\ UNCHANGED copyFrame

\* release_snapshot, whose result is only logged, and the end of the
\* iteration of the for loop over src_backends
CloneReleaseSnapshot(w) ==
    /\ pc[w] = "release_snapshot"
    /\ pc' = [pc EXCEPT ![w] = AfterSource(w, status[w])]
    /\ UNCHANGED <<status, clone, local_dir, copyFrame>>

\* ------------------------------------------------- _s_report_version
\* a decrement in place of the increment
IncrReportVersion_Decrement(v) == v - 1

\* ++_s_report_version on the std::atomic_ulong: one atomic read-modify-
\* write.  The value is kept as the offset from the one at boot, which is
\* time(NULL) * 10000 and far from 2^64.
IncrReportVersion(v) == v + 1

\* ------------------------------------ _create_table_worker_thread_callback
\* The block under the pool mutex: wait while the queue is empty, else take
\* the head.
CreateTableTake(w) ==
    /\ PoolOf(w) = "CREATE_TABLE"
    /\ pc[w] = "idle"
    /\ IF tasks[PoolOf(w)] = <<>>
       THEN /\ pc' = [pc EXCEPT ![w] = "wait"]
            /\ UNCHANGED <<tasks, agent_task_req>>
       ELSE /\ agent_task_req' = [agent_task_req EXCEPT ![w] = Head(tasks[PoolOf(w)])]
            /\ tasks' = [tasks EXCEPT ![PoolOf(w)] = Tail(@)]
            /\ pc' = [pc EXCEPT ![w] = "exec"]
    /\ UNCHANGED <<push, fineVars, config, status, otherVars, s_worker_count, registryVars, report_version,
                   submitting, priority, user, index,
                   finish_task_request, try_time, historyVars>>

\* create_table returning create_status, the report built from it, and the
\* call of _finish_task
CreateTableExec(w, create_status) ==
    /\ PoolOf(w) = "CREATE_TABLE"
    /\ pc[w] = "exec"
    /\    /\ report_version' = IF create_status = "OLAP_SUCCESS"
                               THEN IncrReportVersion(report_version)
                               ELSE report_version
          /\ finish_task_request' = [finish_task_request EXCEPT ![w] =
                 [task_type |-> agent_task_req[w].task_type,
                  signature |-> agent_task_req[w].signature,
                  status_code |-> IF create_status = "OLAP_SUCCESS"
                                  THEN "OK" ELSE "RUNTIME_ERROR",
                  isset_finish_tablet_infos |-> FALSE,
                  finish_tablet_infos |-> <<>>]]
    /\ executed' = [executed EXCEPT ![KeyOf(agent_task_req[w])] = @ + 1]
    /\ reports' = [reports EXCEPT ![KeyOf(agent_task_req[w])] = @ + 1]
    /\ pc' = [pc EXCEPT ![w] = "finish"]
    /\ try_time' = [try_time EXCEPT ![w] = 0]
    /\ UNCHANGED <<push, fineVars, config, status, otherVars, s_worker_count, tasks, registryVars, submitting,
                   priority, agent_task_req, user, index,
                   submitted, resubmitted>>

\* ------------------------------------------- _push_worker_thread_callback
\* The lane assignment at thread start, under the pool mutex
PushStart(w) ==
    /\ PoolOf(w) \in PushPools
    /\ pc[w] = "start"
    /\ IF s_worker_count < config.push_worker_count_high_priority
       THEN /\ s_worker_count' = s_worker_count + 1
            /\ priority' = [priority EXCEPT ![w] = "HIGH"]
       ELSE UNCHANGED <<s_worker_count, priority>>
    /\ pc' = [pc EXCEPT ![w] = "idle"]
    /\ UNCHANGED <<push, fineVars, config, status, otherVars, tasks, registryVars, report_version, submitting,
                   agent_task_req, user, index,
                   finish_task_request, try_time, historyVars>>

\* the selection block whose worker leaves with index < 0 without calling
\* notify()
PushTake_NoRenotify(w) ==
    /\ PoolOf(w) \in PushPools
    /\ pc[w] = "idle"
    /\ IF tasks[PoolOf(w)] = <<>>
       THEN /\ pc' = [pc EXCEPT ![w] = "wait"]
            /\ UNCHANGED <<tasks, running_task_user_count, agent_task_req,
                           user, index>>
       ELSE LET q == tasks[PoolOf(w)]
                r == GetNextTaskIndex(
                         config.push_worker_count_normal_priority
                             + config.push_worker_count_high_priority,
                         q, priority[w], total_task_user_count,
                         total_task_count, running_task_user_count)
            IN /\ index' = [index EXCEPT ![w] = r.index]
               /\ running_task_user_count' = r.running
               /\ IF r.index < 0
                  THEN /\ pc' = [pc EXCEPT ![w] = "sleep"]
                       /\ UNCHANGED <<tasks, agent_task_req, user>>
                  ELSE /\ agent_task_req' = [agent_task_req EXCEPT ![w] = q[r.index + 1]]
                       /\ user' = [user EXCEPT ![w] =
                                      IF q[r.index + 1].isset_resource_info
                                      THEN q[r.index + 1].user ELSE ""]
                       /\ tasks' = [tasks EXCEPT ![PoolOf(w)] = Erase(q, r.index)]
                       /\ pc' = [pc EXCEPT ![w] = "exec"]
    /\ UNCHANGED <<push, fineVars, config, status, otherVars, s_worker_count, task_signatures,
                   total_task_user_count, total_task_count, report_version,
                   submitting, priority, finish_task_request,
                   try_time, historyVars>>

\* The do { } while (0) block under the pool mutex: wait while the queue is
\* empty; else select, and either notify and leave with index < 0 or take
\* the selected task out of the queue.  The block is one step: the scan of
\* _get_next_task_index reads the count maps as they are at that step.
PushTake(w) ==
    /\ PoolOf(w) \in PushPools
    /\ pc[w] = "idle"
    /\ IF tasks[PoolOf(w)] = <<>>
       THEN /\ pc' = [pc EXCEPT ![w] = "wait"]
            /\ UNCHANGED <<tasks, running_task_user_count, agent_task_req,
                           user, index>>
       ELSE LET q == tasks[PoolOf(w)]
                r == GetNextTaskIndex(
                         config.push_worker_count_normal_priority
                             + config.push_worker_count_high_priority,
                         q, priority[w], total_task_user_count,
                         total_task_count, running_task_user_count)
            IN /\ index' = [index EXCEPT ![w] = r.index]
               /\ running_task_user_count' = r.running
               /\ IF r.index < 0
                  THEN /\ pc' \in Notify(PoolOf(w), [pc EXCEPT ![w] = "sleep"])
                       /\ UNCHANGED <<tasks, agent_task_req, user>>
                  ELSE /\ agent_task_req' = [agent_task_req EXCEPT ![w] = q[r.index + 1]]
                       /\ user' = [user EXCEPT ![w] =
                                      IF q[r.index + 1].isset_resource_info
                                      THEN q[r.index + 1].user ELSE ""]
                       /\ tasks' = [tasks EXCEPT ![PoolOf(w)] = Erase(q, r.index)]
                       /\ pc' = [pc EXCEPT ![w] = "exec"]
    /\ UNCHANGED <<push, fineVars, config, status, otherVars, s_worker_count, task_signatures,
                   total_task_user_count, total_task_count, report_version,
                   submitting, priority, finish_task_request,
                   try_time, historyVars>>

\* sleep(1); continue  of a worker that found no high priority task
PushSleep(w) ==
    /\ pc[w] = "sleep"
    /\ pc' = [pc EXCEPT ![w] = "idle"]
    /\ index' = [index EXCEPT ![w] = 0]
    /\ UNCHANGED <<push, fineVars, config, status, otherVars, s_worker_count, tasks, registryVars,
                   report_version, submitting, priority,
                   agent_task_req, user, finish_task_request, try_time,
                   historyVars>>

\* the push callback's mapping with ANALYSIS_ERROR for every failure
PushStatusCode_AllAnalysis(push_status) ==
    IF push_status = "PALO_SUCCESS" THEN "OK" ELSE "ANALYSIS_ERROR"

\* the TStatusCode the push callback reports for its final `status`
PushStatusCode(push_status) ==
    CASE push_status = "PALO_SUCCESS" -> "OK"
      [] push_status = "PALO_TASK_REQUEST_ERROR" -> "ANALYSIS_ERROR"
      [] OTHER -> "RUNTIME_ERROR"

\* The push or delete itself ending with `push_status`, the report built
\* from it, and the call of _finish_task
PushExec(w, push_status) ==
    /\ PoolOf(w) \in PushPools
    /\ pc[w] = "exec"
    /\    /\ report_version' = IF push_status = "PALO_SUCCESS"
                               THEN IncrReportVersion(report_version)
                               ELSE report_version
          /\ finish_task_request' = [finish_task_request EXCEPT ![w] =
                 [task_type |-> agent_task_req[w].task_type,
                  signature |-> agent_task_req[w].signature,
                  status_code |-> PushStatusCode(push_status),
                  isset_finish_tablet_infos |-> (push_status = "PALO_SUCCESS"),
                  finish_tablet_infos |-> <<>>]]
    /\ executed' = [executed EXCEPT ![KeyOf(agent_task_req[w])] = @ + 1]
    /\ reports' = [reports EXCEPT ![KeyOf(agent_task_req[w])] = @ + 1]
    /\ pc' = [pc EXCEPT ![w] = "finish"]
    /\ try_time' = [try_time EXCEPT ![w] = 0]
    /\ push' = [push EXCEPT ![w] = NoPush]
    /\ status' = [status EXCEPT ![w] = push_status]
    /\ UNCHANGED <<fineVars, config, otherVars, s_worker_count, tasks, registryVars, submitting,
                   priority, agent_task_req, user, index,
                   submitted, resubmitted>>

\* the values of push_req.push_type: the three of TPushType and one that is
\* none of them
PushTypes == {"LOAD", "LOAD_DELETE", "DELETE", "OTHER"}

\* The branch on push_req.push_type, which the worker reads here for the
\* first time: Pusher::init returning init_status for a load, delete_data
\* returning delete_data_status for a delete, PALO_TASK_REQUEST_ERROR for
\* any other type.
PushBranch(w, push_type, init_status, delete_data_status) ==
    /\ PoolOf(w) \in PushPools
    /\ pc[w] = "exec"
    /\ push[w].phase = "init"
    /\ LET load == push_type \in {"LOAD", "LOAD_DELETE"}
           st == IF load THEN init_status
                 ELSE IF push_type = "DELETE"
                 THEN (IF delete_data_status # "OLAP_SUCCESS"
                       THEN "PALO_ERROR" ELSE status[w])
                 ELSE "PALO_TASK_REQUEST_ERROR"
       IN /\ status' = [status EXCEPT ![w] = st]
          /\ push' = [push EXCEPT ![w] =
                 [phase |-> IF load /\ st = "PALO_SUCCESS" /\ 0 < PUSH_MAX_RETRY
                            THEN "process" ELSE "done",
                  push_type |-> push_type,
                  retry_time |-> 0,
                  process_calls |-> <<>>]]
    /\ UNCHANGED <<fineVars, config, s_worker_count, tasks, registryVars,
                   report_version, submitting, pc, priority, agent_task_req,
                   user, index, finish_task_request, try_time, otherVars,
                   historyVars>>

\* One iteration of the loop  while (retry_time < PUSH_MAX_RETRY), in which
\* Pusher::process returns process_status: PALO_ERROR counts a retry and
\* goes back to the loop test, any other result breaks.
PushProcess(w, process_status) ==
    /\ pc[w] = "exec"
    /\ push[w].phase = "process"
    /\ push[w].retry_time < PUSH_MAX_RETRY
    /\ status' = [status EXCEPT ![w] = process_status]
    /\ LET retry_time == IF process_status = "PALO_ERROR"
                         THEN push[w].retry_time + 1 ELSE push[w].retry_time
       IN push' = [push EXCEPT ![w] =
              [@ EXCEPT !.retry_time = retry_time,
                        !.process_calls = Append(@, process_status),
                        !.phase = IF process_status = "PALO_ERROR"
                                       /\ retry_time < PUSH_MAX_RETRY
                                  THEN "process" ELSE "done"]]
    /\ UNCHANGED <<fineVars, config, s_worker_count, tasks, registryVars,
                   report_version, submitting, pc, priority, agent_task_req,
                   user, index, finish_task_request, try_time, otherVars,
                   historyVars>>

\* the report of a push whose branch has ended with the local `status`
PushReport(w) ==
    /\ push[w].phase = "done"
    /\ PushExec(w, status[w])

\* ------------------------------------------ _clone_worker_thread_callback
\* The block under the pool mutex: wait while the queue is empty, else take
\* the head.
CloneTake(w) ==
    /\ PoolOf(w) = "CLONE"
    /\ pc[w] = "idle"
    /\ IF tasks[PoolOf(w)] = <<>>
       THEN /\ pc' = [pc EXCEPT ![w] = "wait"]
            /\ UNCHANGED <<tasks, agent_task_req>>
       ELSE /\ agent_task_req' = [agent_task_req EXCEPT ![w] = Head(tasks[PoolOf(w)])]
            /\ tasks' = [tasks EXCEPT ![PoolOf(w)] = Tail(@)]
            /\ pc' = [pc EXCEPT ![w] = "exec"]
    /\ UNCHANGED <<push, fineVars, config, status, otherVars, s_worker_count, registryVars, report_version,
                   submitting, priority, user, index,
                   finish_task_request, try_time, historyVars>>

\* a check that goes on to the copy although the tablet exists
CloneCheck_CopiesExisting(w, tablet_exists, olap_status) ==
    /\ PoolOf(w) = "CLONE"
    /\ pc[w] = "exec"
    /\ LET st == IF olap_status # "OLAP_SUCCESS" THEN "PALO_ERROR"
                 ELSE "PALO_SUCCESS"
       IN /\ status' = [status EXCEPT ![w] = st]
          /\ pc' = [pc EXCEPT ![w] =
                       IF st = "PALO_SUCCESS"
                             /\ agent_task_req[w].clone_req.src_backends > 0
                       THEN "make_snapshot" ELSE "load_header"]
    /\ clone' = [clone EXCEPT ![w] =
           [@ EXCEPT !.tablet_exists = tablet_exists,
                     !.shard_path_called = TRUE]]
    /\ UNCHANGED <<local_dir, copyFrame>>

\* get_table telling whether the tablet exists, obtain_shard_path returning
\* olap_status when it does not, and the entry into the for loop of
\* _clone_copy, which a request without source backends leaves at once
\* with PALO_SUCCESS
CloneCheck(w, tablet_exists, olap_status) ==
    /\ PoolOf(w) = "CLONE"
    /\ pc[w] = "exec"
    /\ LET st == IF tablet_exists THEN "PALO_CREATE_TABLE_EXIST"
                 ELSE IF olap_status # "OLAP_SUCCESS" THEN "PALO_ERROR"
                 ELSE "PALO_SUCCESS"
       IN /\ status' = [status EXCEPT ![w] = st]
          /\ pc' = [pc EXCEPT ![w] =
                       IF st = "PALO_SUCCESS"
                             /\ agent_task_req[w].clone_req.src_backends > 0
                       THEN "make_snapshot" ELSE "load_header"]
    /\ clone' = [clone EXCEPT ![w] =
           [@ EXCEPT !.tablet_exists = tablet_exists,
                     !.shard_path_called = ~tablet_exists]]
    /\ UNCHANGED <<local_dir, copyFrame>>

\* load_header returning load_header_status after a successful copy, and
\* the removal of the local directory after a failure; removed tells
\* whether remove_all went through (its exception is caught and logged)
CloneLoadHeader(w, load_header_status, removed) ==
    /\ pc[w] = "load_header"
    /\ LET st == IF status[w] = "PALO_SUCCESS"
                        /\ load_header_status # "OLAP_SUCCESS"
                 THEN "PALO_ERROR" ELSE status[w]
       IN /\ status' = [status EXCEPT ![w] = st]
          /\ local_dir' = IF st \notin {"PALO_SUCCESS", "PALO_CREATE_TABLE_EXIST"}
                                /\ removed
                          THEN {} ELSE local_dir
    /\ pc' = [pc EXCEPT ![w] = "tablet_info"]
    /\ clone' = [clone EXCEPT ![w].load_header_called = (status[w] = "PALO_SUCCESS")]
    /\ UNCHANGED copyFrame

\* the TStatusCode the clone callback reports for its final `status`
CloneStatusCode(clone_status) ==
    IF clone_status # "PALO_SUCCESS" /\ clone_status # "PALO_CREATE_TABLE_EXIST"
    THEN "RUNTIME_ERROR" ELSE "OK"

\* the stale test that compares the versions only
IsStale_IgnoresHash(clone_req, tablet_info) ==
    /\ clone_req.isset_committed_version /\ clone_req.isset_committed_version_hash
    /\ tablet_info.version < clone_req.committed_version

\* the condition under which the cloned tablet is dropped as stale
IsStale(clone_req, tablet_info) ==
    /\ clone_req.isset_committed_version /\ clone_req.isset_committed_version_hash
    /\ \/ tablet_info.version < clone_req.committed_version
       \/ /\ tablet_info.version = clone_req.committed_version
          /\ tablet_info.version_hash # clone_req.committed_version_hash

\* _get_tablet_info returning get_tablet_info_status and tablet_info after
\* a clone that succeeded or found the tablet, the drop of a stale tablet
\* (the result of _drop_table is only logged), the report, and the call of
\* _finish_task
CloneReport(w, get_tablet_info_status, tablet_info) ==
    /\ pc[w] = "tablet_info"
    /\ LET fetch == status[w] \in {"PALO_SUCCESS", "PALO_CREATE_TABLE_EXIST"}
           got == fetch /\ get_tablet_info_status = "PALO_SUCCESS"
           stale == got /\ IsStale(agent_task_req[w].clone_req, tablet_info)
           st == IF fetch /\ (~got \/ stale) THEN "PALO_ERROR" ELSE status[w]
           tablet_infos == IF got /\ ~stale THEN <<tablet_info>> ELSE <<>>
           status_code == CloneStatusCode(st)
       IN /\ status' = [status EXCEPT ![w] = st]
          /\ clone' = [clone EXCEPT ![w] =
                 [@ EXCEPT !.tablet_info = IF got THEN tablet_info ELSE @,
                           !.drop_called = stale]]
          /\ finish_task_request' = [finish_task_request EXCEPT ![w] =
                 [task_type |-> agent_task_req[w].task_type,
                  signature |-> agent_task_req[w].signature,
                  status_code |-> status_code,
                  isset_finish_tablet_infos |-> (status_code = "OK"),
                  finish_tablet_infos |-> IF status_code = "OK"
                                          THEN tablet_infos ELSE <<>>]]
    /\ executed' = [executed EXCEPT ![KeyOf(agent_task_req[w])] = @ + 1]
    /\ reports' = [reports EXCEPT ![KeyOf(agent_task_req[w])] = @ + 1]
    /\ pc' = [pc EXCEPT ![w] = "finish"]
    /\ try_time' = [try_time EXCEPT ![w] = 0]
    /\ UNCHANGED <<push, fineVars, config, s_worker_count, tasks, registryVars, report_version,
                   submitting, priority, agent_task_req, user, index,
                   local_dir, request_report_version, finish_rpcs,
                   submitted, resubmitted>>

\* outcomes of the calls a worker makes
AgentStatuses == {"PALO_SUCCESS", "PALO_TASK_REQUEST_ERROR", "PALO_ERROR"}

OLAPStatuses == {"OLAP_SUCCESS", "OLAP_ERROR"}

ClientStatuses == {"PALO_SUCCESS", "PALO_ERROR"}

CreateTableWorkerStep(w) ==
    \/ CreateTableTake(w)
    \/ \E create_status \in OLAPStatuses : CreateTableExec(w, create_status)
    \/ \E client_status \in ClientStatuses : FinishTask(w, client_status)
    \/ WorkerRemove(w)

\* a step of a clone worker whose calls return any of their results, with
\* the listings and tablet infos drawn from the given sets
CloneWorkerStep(w, listings, tablet_infos) ==
    \/ CloneTake(w)
    \/ \E tablet_exists \in BOOLEAN, olap_status \in OLAPStatuses :
          CloneCheck(w, tablet_exists, olap_status)
    \/ \E result \in MakeSnapshotResults : CloneMakeSnapshot(w, result)
    \/ \E download_status \in ClientStatuses, file_list_str \in listings :
          CloneListDir(w, download_status, file_list_str)
    \/ \E download_status \in ClientStatuses : CloneGetLength(w, download_status)
    \/ \E r \in DownloadResults : CloneDownloadFile(w, r)
    \/ CloneReleaseSnapshot(w)
    \/ \E load_header_status \in OLAPStatuses, removed \in BOOLEAN :
          CloneLoadHeader(w, load_header_status, removed)
    \/ \E get_tablet_info_status \in ClientStatuses, tablet_info \in tablet_infos :
          CloneReport(w, get_tablet_info_status, tablet_info)

PushWorkerStep(w) ==
    \/ PushStart(w)
    \/ PushTake(w)
    \/ PushSleep(w)
    \/ \E push_status \in AgentStatuses : PushExec(w, push_status)
    \/ \E client_status \in ClientStatuses : FinishTask(w, client_status)
    \/ WorkerRemove(w)

\* ------------------------------ _report_olap_table_worker_thread_callback
\* request.__set_report_version(_s_report_version): the tablet reporter
\* loads the atomic into the request it is about to send.
ReportOlapTable ==
    /\ request_report_version' = report_version
    /\ UNCHANGED <<push, fineVars, config, s_worker_count, tasks, registryVars, report_version,
                   submitting, workerVars, cloneVars, finish_rpcs,
                   historyVars>>

\* ------------------------------------------------------ the other pools
\* The pools whose callbacks take the head of the queue, run the engine
\* calls of one task, and finish and deregister it.
GenericPools ==
    {"DROP_TABLE", "ALTER_TABLE", "STORAGE_MEDIUM_MIGRATE",
     "CANCEL_DELETE_DATA", "CHECK_CONSISTENCY", "UPLOAD", "RESTORE",
     "MAKE_SNAPSHOT", "RELEASE_SNAPSHOT"}

AllPools == Pools \cup GenericPools

\* the task types of the alter pool's switch
AlterTaskTypes == {"SCHEMA_CHANGE", "ROLLUP"}

\* The task types a pool is given.  The callbacks other than the alter
\* callback never branch on the type, which is here the name of the pool.
TaskTypesOf(pool) == IF pool = "ALTER_TABLE" THEN AlterTaskTypes ELSE {pool}

AllTaskTypes == UNION {TaskTypesOf(pool) : pool \in AllPools}

AllKeys == AllTaskTypes \X Signatures

\* each of these pools is started with one worker thread
AllWorkerIds == WorkerIds \cup (GenericPools \X {1})

\* a task of one of these pools: no resource_info, no priority
GenericTask(task_type, signature) ==
    [task_type |-> task_type, signature |-> signature,
     isset_resource_info |-> FALSE, user |-> "",
     isset_priority |-> FALSE, priority |-> "NORMAL",
     clone_req |-> NoCloneReq]

\* the state after start() of every pool
InitAllPools ==
    /\ config \in Configs
    /\ s_worker_count = 0
    /\ tasks = [p \in AllPools |-> <<>>]
    /\ task_signatures = [k \in AllTaskTypes |-> {}]
    /\ total_task_user_count = [k \in AllTaskTypes |-> [u \in UserKeys |-> 0]]
    /\ total_task_count = [k \in AllTaskTypes |-> 0]
    /\ running_task_user_count = [k \in AllTaskTypes |-> [u \in UserKeys |-> 0]]
    /\ report_version = 0
    /\ submitting = {}
    /\ pc = [w \in AllWorkerIds |->
                IF w \notin WorkerIds THEN "idle"
                ELSE IF w[2] > WorkerCount(PoolOf(w), config) THEN "none"
                ELSE IF PoolOf(w) \in PushPools THEN "start" ELSE "idle"]
    /\ priority = [w \in AllWorkerIds |-> "NORMAL"]
    /\ agent_task_req = [w \in AllWorkerIds |-> NoTask]
    /\ user = [w \in AllWorkerIds |-> ""]
    /\ index = [w \in AllWorkerIds |-> 0]
    /\ finish_task_request = [w \in AllWorkerIds |-> NoReport]
    /\ try_time = [w \in AllWorkerIds |-> 0]
    /\ status = [w \in AllWorkerIds |-> "PALO_SUCCESS"]
    /\ clone = [w \in AllWorkerIds |-> NoClone]
    /\ local_dir = {}
    /\ request_report_version = 0
    /\ finish_rpcs = [w \in AllWorkerIds |-> <<>>]
    /\ submitted = [k \in AllKeys |-> 0]
    /\ resubmitted = [k \in AllKeys |-> 0]
    /\ executed = [k \in AllKeys |-> 0]
    /\ reports = [k \in AllKeys |-> 0]
    /\ push = [w \in AllWorkerIds |-> NoPush]
    /\ lock_owner = [l \in Locks |-> NoThread]
    /\ next_task = [w \in AllWorkerIds |-> NoScan]
    /\ submit_call = [c \in Submitters |-> NoCall]
    /\ report_task = "idle"
    /\ report_disk_state = "idle"
    /\ alter = NoAlter
    /\ master_port = 0
    /\ wait_duration = 0
    /\ reporter = [r \in Reporters |-> NoReporter]

\* a block under the pool mutex that takes the task at the back of the queue
GenericTake_TakesBack(w) ==
    /\ PoolOf(w) \in GenericPools
    /\ pc[w] = "idle"
    /\ IF tasks[PoolOf(w)] = <<>>
       THEN /\ pc' = [pc EXCEPT ![w] = "wait"]
            /\ UNCHANGED <<tasks, agent_task_req>>
       ELSE LET q == tasks[PoolOf(w)]
            IN /\ agent_task_req' = [agent_task_req EXCEPT ![w] = q[Len(q)]]
               /\ tasks' = [tasks EXCEPT ![PoolOf(w)] = SubSeq(q, 1, Len(q) - 1)]
               /\ pc' = [pc EXCEPT ![w] = "exec"]
    /\ UNCHANGED <<push, fineVars, config, status, otherVars, s_worker_count,
                   registryVars, report_version, submitting, priority, user,
                   index, finish_task_request, try_time, historyVars>>

\* The block under the pool mutex of these callbacks: wait while the queue
\* is empty, else front() and pop_front().
GenericTake(w) ==
    /\ PoolOf(w) \in GenericPools
    /\ pc[w] = "idle"
    /\ IF tasks[PoolOf(w)] = <<>>
       THEN /\ pc' = [pc EXCEPT ![w] = "wait"]
            /\ UNCHANGED <<tasks, agent_task_req>>
       ELSE /\ agent_task_req' = [agent_task_req EXCEPT ![w] = Head(tasks[PoolOf(w)])]
            /\ tasks' = [tasks EXCEPT ![PoolOf(w)] = Tail(@)]
            /\ pc' = [pc EXCEPT ![w] = "exec"]
    /\ UNCHANGED <<push, fineVars, config, status, otherVars, s_worker_count,
                   registryVars, report_version, submitting, priority, user,
                   index, finish_task_request, try_time, historyVars>>

\* a callback of these pools that increments _s_report_version on success
GenericExec_IncrementsVersion(w, succeeded, get_tablet_info_status, tablet_info) ==
    /\ PoolOf(w) \in GenericPools \ {"ALTER_TABLE"}
    /\ pc[w] = "exec"
    /\ finish_task_request' = [finish_task_request EXCEPT ![w] =
           [task_type |-> agent_task_req[w].task_type,
            signature |-> agent_task_req[w].signature,
            status_code |-> IF succeeded THEN "OK" ELSE "RUNTIME_ERROR",
            isset_finish_tablet_infos |-> (PoolOf(w) = "RESTORE"),
            finish_tablet_infos |->
                IF /\ PoolOf(w) = "RESTORE"
                   /\ succeeded
                   /\ get_tablet_info_status = "PALO_SUCCESS"
                THEN <<tablet_info>> ELSE <<>>]]
    /\ executed' = [executed EXCEPT ![KeyOf(agent_task_req[w])] = @ + 1]
    /\ reports' = [reports EXCEPT ![KeyOf(agent_task_req[w])] = @ + 1]
    /\ pc' = [pc EXCEPT ![w] = "finish"]
    /\ try_time' = [try_time EXCEPT ![w] = 0]
    /\ report_version' = IF succeeded THEN IncrReportVersion(report_version)
                         ELSE report_version
    /\ UNCHANGED <<push, fineVars, config, status, otherVars, s_worker_count,
                   tasks, registryVars, submitting, priority,
                   agent_task_req, user, index, submitted, resubmitted>>

\* The body of the drop, storage-medium-migrate, cancel-delete,
\* check-consistency, upload, restore, make-snapshot and release-snapshot
\* callbacks between the dequeue and _finish_task: the engine calls of the
\* task all succeed or one of them fails, and the report carries OK or
\* RUNTIME_ERROR.  The restore callback sets finish_tablet_infos in every
\* report, with the tablet info when the restore and _get_tablet_info
\* succeeded.
GenericExec(w, succeeded, get_tablet_info_status, tablet_info) ==
    /\ PoolOf(w) \in GenericPools \ {"ALTER_TABLE"}
    /\ pc[w] = "exec"
    /\ finish_task_request' = [finish_task_request EXCEPT ![w] =
           [task_type |-> agent_task_req[w].task_type,
            signature |-> agent_task_req[w].signature,
            status_code |-> IF succeeded THEN "OK" ELSE "RUNTIME_ERROR",
            isset_finish_tablet_infos |-> (PoolOf(w) = "RESTORE"),
            finish_tablet_infos |->
                IF /\ PoolOf(w) = "RESTORE"
                   /\ succeeded
                   /\ get_tablet_info_status = "PALO_SUCCESS"
                THEN <<tablet_info>> ELSE <<>>]]
    /\ executed' = [executed EXCEPT ![KeyOf(agent_task_req[w])] = @ + 1]
    /\ reports' = [reports EXCEPT ![KeyOf(agent_task_req[w])] = @ + 1]
    /\ pc' = [pc EXCEPT ![w] = "finish"]
    /\ try_time' = [try_time EXCEPT ![w] = 0]
    /\ UNCHANGED <<push, fineVars, config, status, otherVars, s_worker_count,
                   tasks, registryVars, report_version, submitting, priority,
                   agent_task_req, user, index, submitted, resubmitted>>

\* ------------------------------------------- exceptions in a callback
\* The pools whose callback makes one engine call between the dequeue and
\* the report.
OneCallPools == {"CREATE_TABLE"} \cup (GenericPools \ {"ALTER_TABLE"})

throwFrame == <<push, fineVars, config, status, otherVars, s_worker_count, tasks, registryVars, report_version, submitting, priority, agent_task_req, user, index, finish_task_request, try_time>>

\* The engine call of the callback does not return: it raises a C++
\* exception, which starts to unwind the stack of the worker thread.
EngineThrows(w) ==
    /\ PoolOf(w) \in OneCallPools
    /\ pc[w] = "exec"
    /\ pc' = [pc EXCEPT ![w] = "thrown"]
    /\ executed' = [executed EXCEPT ![KeyOf(agent_task_req[w])] = @ + 1]
    /\ UNCHANGED <<throwFrame, submitted, resubmitted, reports>>

\* The callbacks have no try block around the engine call and none around
\* their loop: the exception leaves the start routine of the thread and
\* std::terminate ends the process.  No report is built, _finish_task and
\* _remove_task_info are not called.
Unwind(w) ==
    /\ pc[w] = "thrown"
    /\ pc' = [pc EXCEPT ![w] = "terminated"]
    /\ UNCHANGED <<throwFrame, historyVars>>

\* std::terminate has been called: no thread of the process runs any more
Aborted == \E w \in AllWorkerIds : pc[w] = "terminated"

\* ------------------------------------ _alter_table_worker_thread_callback
\* AlterTableStatus, as _show_alter_table_status returns it
AlterTableStatuses ==
    {"ALTER_TABLE_WAITING", "ALTER_TABLE_RUNNING", "ALTER_TABLE_DONE",
     "ALTER_TABLE_FAILED"}

\* `status` of _alter_table where it decides on ++_s_report_version: the
\* prior status is alter_table_status, _drop_table returns drop_status when
\* it is called and the engine operation returns ret when it is called
AlterStatus(task_type, alter_table_status, drop_status, ret) ==
    IF task_type \notin AlterTaskTypes THEN "PALO_TASK_REQUEST_ERROR"
    ELSE IF alter_table_status = "ALTER_TABLE_FAILED" /\ drop_status # "PALO_SUCCESS"
    THEN drop_status
    ELSE IF /\ alter_table_status \in {"ALTER_TABLE_DONE", "ALTER_TABLE_FAILED",
                                       "ALTER_TABLE_WAITING"}
            /\ ret # "OLAP_SUCCESS"
    THEN "PALO_ERROR"
    ELSE "PALO_SUCCESS"

\* the TStatusCode of _alter_table's report for its final `status`
AlterStatusCode(alter_status) ==
    CASE alter_status = "PALO_SUCCESS" -> "OK"
      [] alter_status = "PALO_TASK_REQUEST_ERROR" -> "ANALYSIS_ERROR"
      [] OTHER -> "RUNTIME_ERROR"

\* The switch of the callback and _alter_table: for SCHEMA_CHANGE and
\* ROLLUP the report _alter_table builds, for any other type the
\* default-constructed report; then the call of _finish_task.
AlterTableExec(w, alter_table_status, drop_status, ret, get_tablet_info_status, tablet_info) ==
    /\ PoolOf(w) = "ALTER_TABLE"
    /\ pc[w] = "exec"
    /\ LET task_type == agent_task_req[w].task_type
           st == AlterStatus(task_type, alter_table_status, drop_status, ret)
           final == IF st = "PALO_SUCCESS" THEN get_tablet_info_status ELSE st
       IN IF task_type \in AlterTaskTypes
          THEN /\ report_version' = IF st = "PALO_SUCCESS"
                                    THEN IncrReportVersion(report_version)
                                    ELSE report_version
               /\ finish_task_request' = [finish_task_request EXCEPT ![w] =
                      [task_type |-> task_type,
                       signature |-> agent_task_req[w].signature,
                       status_code |-> AlterStatusCode(final),
                       isset_finish_tablet_infos |-> (final = "PALO_SUCCESS"),
                       finish_tablet_infos |->
                           IF final = "PALO_SUCCESS" THEN <<tablet_info>>
                           ELSE <<>>]]
          ELSE /\ finish_task_request' = [finish_task_request EXCEPT ![w] = NoReport]
               /\ UNCHANGED report_version
    /\ executed' = [executed EXCEPT ![KeyOf(agent_task_req[w])] = @ + 1]
    /\ reports' = [reports EXCEPT ![KeyOf(agent_task_req[w])] = @ + 1]
    /\ pc' = [pc EXCEPT ![w] = "finish"]
    /\ try_time' = [try_time EXCEPT ![w] = 0]
    /\ UNCHANGED <<push, fineVars, config, status, otherVars, s_worker_count,
                   tasks, registryVars, submitting, priority,
                   agent_task_req, user, index, submitted, resubmitted>>

\* ------------------------------------------- _alter_table, call by call
\* The same callback, one step per call of the engine.  A step is the call
\* and the code that follows it up to the next call.

\* what the steps between the dequeue and the report leave alone
alterFrame == <<push, mutexVars, reporterVars, config, s_worker_count, tasks,
                registryVars, submitting, workerVars, otherVars,
                historyVars>>

\* The block under the pool mutex: wait while the queue is empty, else
\* front() and pop_front().  The locals of the iteration are fresh.
AlterTableTake(w) ==
    /\ PoolOf(w) = "ALTER_TABLE"
    /\ pc[w] = "idle"
    /\ IF tasks[PoolOf(w)] = <<>>
       THEN /\ pc' = [pc EXCEPT ![w] = "wait"]
            /\ UNCHANGED <<tasks, agent_task_req, alter>>
       ELSE /\ agent_task_req' = [agent_task_req EXCEPT ![w] = Head(tasks[PoolOf(w)])]
            /\ tasks' = [tasks EXCEPT ![PoolOf(w)] = Tail(@)]
            /\ pc' = [pc EXCEPT ![w] = "exec"]
            /\ alter' = NoAlter
    /\ UNCHANGED <<push, mutexVars, reporterVars, config, status, otherVars,
                   s_worker_count, registryVars, report_version, submitting,
                   priority, user, index, finish_task_request, try_time,
                   historyVars>>

\* switch (task_type) of the callback: _alter_table is called for
\* SCHEMA_CHANGE and ROLLUP, where its own switch leaves status at
\* PALO_SUCCESS; the default case calls nothing.
AlterSwitch(w) ==
    /\ PoolOf(w) = "ALTER_TABLE"
    /\ pc[w] = "exec"
    /\ alter.phase = "init"
    /\ alter' = IF agent_task_req[w].task_type \in AlterTaskTypes
                THEN [alter EXCEPT !.phase = "show", !.alter_table_called = TRUE]
                ELSE [alter EXCEPT !.phase = "report"]
    /\ UNCHANGED <<alterFrame, report_version>>

\* _show_alter_table_status returns alter_table_status.  ALTER_TABLE_FAILED
\* leads to _drop_table, DONE and WAITING to the engine operation; with any
\* other status neither is called, status is still PALO_SUCCESS and
\* _s_report_version is incremented.
AlterShowStatus(w, alter_table_status) ==
    /\ PoolOf(w) = "ALTER_TABLE"
    /\ pc[w] = "exec"
    /\ alter.phase = "show"
    /\ alter' = [alter EXCEPT
           !.alter_table_status = alter_table_status,
           !.phase = IF alter_table_status = "ALTER_TABLE_FAILED" THEN "drop"
                     ELSE IF alter_table_status \in {"ALTER_TABLE_DONE",
                                                     "ALTER_TABLE_WAITING"}
                     THEN "engine" ELSE "info"]
    /\ report_version' =
           IF alter_table_status \in {"ALTER_TABLE_FAILED", "ALTER_TABLE_DONE",
                                      "ALTER_TABLE_WAITING"}
           THEN report_version ELSE IncrReportVersion(report_version)
    /\ UNCHANGED alterFrame

\* a _drop_table whose failure does not keep the engine operation from
\* being called
AlterDropTable_IgnoresFailure(w, drop_status) ==
    /\ PoolOf(w) = "ALTER_TABLE"
    /\ pc[w] = "exec"
    /\ alter.phase = "drop"
    /\ alter' = [alter EXCEPT
           !.drop_called = TRUE,
           !.drop_status = drop_status,
           !.phase = "engine"]
    /\ UNCHANGED <<alterFrame, report_version>>

\* status = _drop_table(drop_tablet_req): when it fails nothing more is
\* called before the report
AlterDropTable(w, drop_status) ==
    /\ PoolOf(w) = "ALTER_TABLE"
    /\ pc[w] = "exec"
    /\ alter.phase = "drop"
    /\ alter' = [alter EXCEPT
           !.drop_called = TRUE,
           !.drop_status = drop_status,
           !.status = drop_status,
           !.phase = IF drop_status = "PALO_SUCCESS" THEN "engine" ELSE "report"]
    /\ UNCHANGED <<alterFrame, report_version>>

\* ret = create_rollup_table(...) or schema_change(...): a failure sets
\* status to PALO_ERROR, a success is followed by ++_s_report_version
AlterEngine(w, ret) ==
    /\ PoolOf(w) = "ALTER_TABLE"
    /\ pc[w] = "exec"
    /\ alter.phase = "engine"
    /\ alter' = [alter EXCEPT
           !.engine_called = TRUE,
           !.ret = ret,
           !.status = IF ret # "OLAP_SUCCESS" THEN "PALO_ERROR" ELSE @,
           !.phase = IF ret # "OLAP_SUCCESS" THEN "report" ELSE "info"]
    /\ report_version' = IF ret = "OLAP_SUCCESS"
                         THEN IncrReportVersion(report_version)
                         ELSE report_version
    /\ UNCHANGED alterFrame

\* status = _get_tablet_info(...), called when status is PALO_SUCCESS: on
\* success the tablet info is pushed onto finish_tablet_infos
AlterGetTabletInfo(w, get_tablet_info_status, tablet_info) ==
    /\ PoolOf(w) = "ALTER_TABLE"
    /\ pc[w] = "exec"
    /\ alter.phase = "info"
    /\ alter' = [alter EXCEPT
           !.get_tablet_info_called = TRUE,
           !.status = get_tablet_info_status,
           !.finish_tablet_infos =
               IF get_tablet_info_status = "PALO_SUCCESS"
               THEN <<tablet_info>> ELSE <<>>,
           !.phase = "report"]
    /\ UNCHANGED <<alterFrame, report_version>>

\* The report: the one _alter_table has built from its final status, or
\* the default-constructed one when _alter_table was not called; then the
\* call of _finish_task.
AlterReport(w) ==
    /\ PoolOf(w) = "ALTER_TABLE"
    /\ pc[w] = "exec"
    /\ alter.phase = "report"
    /\ finish_task_request' = [finish_task_request EXCEPT ![w] =
           IF alter.alter_table_called
           THEN [task_type |-> agent_task_req[w].task_type,
                 signature |-> agent_task_req[w].signature,
                 status_code |-> AlterStatusCode(alter.status),
                 isset_finish_tablet_infos |-> (alter.status = "PALO_SUCCESS"),
                 finish_tablet_infos |->
                     IF alter.status = "PALO_SUCCESS"
                     THEN alter.finish_tablet_infos ELSE <<>>]
           ELSE NoReport]
    /\ alter' = [alter EXCEPT !.phase = "done"]
    /\ executed' = [executed EXCEPT ![KeyOf(agent_task_req[w])] = @ + 1]
    /\ reports' = [reports EXCEPT ![KeyOf(agent_task_req[w])] = @ + 1]
    /\ pc' = [pc EXCEPT ![w] = "finish"]
    /\ try_time' = [try_time EXCEPT ![w] = 0]
    /\ UNCHANGED <<push, mutexVars, reporterVars, config, status, otherVars,
                   s_worker_count, tasks, registryVars, report_version,
                   submitting, priority, agent_task_req, user, index,
                   submitted, resubmitted>>

\* ------------------------------ _report_disk_state_worker_thread_callback
\* The disk reporter, once the master's port is known: it reads the root
\* path stats into its request, and then reports and waits on
\* disk_broken_cv under _disk_broken_lock.
ReportDiskState ==
    /\ report_disk_state' = IF report_disk_state = "idle" THEN "report" ELSE "idle"
    /\ UNCHANGED <<push, lock_owner, next_task, submit_call, report_task,
                   alter, reporterVars,
                   config, s_worker_count, tasks, registryVars,
                   report_version, submitting, workerVars, cloneVars,
                   request_report_version, finish_rpcs, historyVars>>

\* ------------------------------------ _report_task_worker_thread_callback
\* One cycle of the task reporter: it copies _s_task_signatures into its
\* request under _s_task_signatures_lock, and then reports and sleeps.
ReportTask ==
    /\ report_task' = IF report_task = "idle" THEN "report" ELSE "idle"
    /\ UNCHANGED <<push, lock_owner, next_task, submit_call,
                   alter, reporterVars,
                   report_disk_state, config, s_worker_count, tasks,
                   registryVars, report_version, submitting, workerVars,
                   cloneVars, request_report_version, finish_rpcs,
                   historyVars>>

\* ------------------------------------------------- the reporter pools
\* The three reporter threads, statement by statement.

reporterFrame == <<push, mutexVars, alter, config, s_worker_count, tasks, registryVars, report_version, submitting, workerVars, cloneVars, finish_rpcs, historyVars>>

\* the port of the coordinator once a heartbeat has told it
MasterPorts == {9020}

\* The heartbeat handler fills the TMasterInfo the pools hold a reference
\* to: the port is 0 until the first heartbeat.
Heartbeat(port) ==
    /\ master_port = 0
    /\ master_port' = port
    /\ UNCHANGED <<wait_duration, reporter, request_report_version,
                   reporterFrame>>

\* start() of a reporter pool whose configured interval is
\* interval_seconds: the disk and the tablet pool store it in the static
\* _wait_duration, the task pool does not; then the one thread is spawned.
StartReporter(r, interval_seconds) ==
    /\ reporter[r].pc = "none"
    /\ wait_duration' = IF r = "REPORT_TASK" THEN wait_duration
                        ELSE interval_seconds
    /\ reporter' = [reporter EXCEPT ![r].pc = "top",
                                    ![r].interval_seconds = interval_seconds]
    /\ UNCHANGED <<master_port, request_report_version, reporterFrame>>

\* The head of the loop of the task reporter: it copies
\* _s_task_signatures under the lock and goes on to report(), whatever
\* the port.
ReporterTaskTop ==
    /\ reporter["REPORT_TASK"].pc = "top"
    /\ reporter' = [reporter EXCEPT !["REPORT_TASK"].pc = "report",
                                    !["REPORT_TASK"].sent = FALSE]
    /\ UNCHANGED <<master_port, wait_duration, request_report_version,
                   reporterFrame>>

\* The head of the loop of the disk reporter with the test of the port
\* left out.
ReporterDiskTop_NoPortGate ==
    /\ reporter["REPORT_DISK_STATE"].pc = "top"
    /\ reporter' = [reporter EXCEPT !["REPORT_DISK_STATE"].pc = "report",
                                    !["REPORT_DISK_STATE"].sent = FALSE]
    /\ UNCHANGED <<master_port, wait_duration, request_report_version,
                   reporterFrame>>

\* The head of the loop of the disk reporter: with port == 0 it sleeps one
\* second and starts over; otherwise it reads the root path stats into the
\* request and goes on to report().
ReporterDiskTop ==
    /\ reporter["REPORT_DISK_STATE"].pc = "top"
    /\ reporter' = [reporter EXCEPT
           !["REPORT_DISK_STATE"].pc =
               IF master_port = 0 THEN "sleep" ELSE "report",
           !["REPORT_DISK_STATE"].sent = FALSE]
    /\ UNCHANGED <<master_port, wait_duration, request_report_version,
                   reporterFrame>>

\* The head of the loop of the tablet reporter: the same test of the port;
\* then the request takes _s_report_version and the tablets the engine
\* enumerates.  When report_all_tablets_info fails the thread goes to its
\* timed wait without a report.
ReporterOlapTableTop(report_all_tablets_info_status) ==
    /\ reporter["REPORT_OLAP_TABLE"].pc = "top"
    /\ IF master_port = 0
       THEN /\ reporter' = [reporter EXCEPT
                   !["REPORT_OLAP_TABLE"].pc = "sleep",
                   !["REPORT_OLAP_TABLE"].sent = FALSE]
            /\ UNCHANGED request_report_version
       ELSE /\ request_report_version' = report_version
            /\ reporter' = [reporter EXCEPT
                   !["REPORT_OLAP_TABLE"].pc =
                       IF report_all_tablets_info_status # "OLAP_SUCCESS"
                       THEN "wait" ELSE "report",
                   !["REPORT_OLAP_TABLE"].report_all_tablets_info_status =
                       report_all_tablets_info_status,
                   !["REPORT_OLAP_TABLE"].sent = FALSE]
    /\ UNCHANGED <<master_port, wait_duration, reporterFrame>>

\* sleep(config::sleep_one_second) and `continue`
ReporterSleep(r) ==
    /\ reporter[r].pc = "sleep"
    /\ reporter' = [reporter EXCEPT ![r].pc = "top"]
    /\ UNCHANGED <<master_port, wait_duration, request_report_version,
                   reporterFrame>>

\* _master_client->report(request, &result): the result is logged and
\* nothing else depends on it.
ReporterReport(r, report_status) ==
    /\ reporter[r].pc = "report"
    /\ reporter' = [reporter EXCEPT
           ![r].pc = "wait",
           ![r].sent = TRUE,
           ![r].reported = reporter[r].reported \cup {master_port}]
    /\ UNCHANGED <<master_port, wait_duration, request_report_version,
                   reporterFrame>>

\* The wait that ends a cycle: the task reporter sleeps
\* config::report_task_interval_seconds; the disk and the tablet reporter
\* wait on disk_broken_cv for at most _wait_duration, and go to the next
\* cycle whether they were awakened or timed out.
ReporterWait(r) ==
    /\ reporter[r].pc = "wait"
    /\ reporter' = [reporter EXCEPT
           ![r].pc = "top",
           ![r].waited = reporter[r].waited \cup
               {IF r = "REPORT_TASK" THEN reporter[r].interval_seconds
                ELSE wait_duration}]
    /\ UNCHANGED <<master_port, wait_duration, request_report_version,
                   reporterFrame>>

\* ------------------------------------------------------------- mutexes
\* The same code, one step per critical section, per acquisition of a
\* MutexLock and per group of accesses to the count maps made under one set
\* of locks.  A lock_guard acquires in the step that enters its block and
\* releases in the step that leaves it.

\* the mutexes thread t holds
Held(t) == {l \in Locks : lock_owner[l] = t}

\* what no step of this section changes
lockFrame == <<config, s_worker_count, report_version, submitting, priority,
               local_dir, request_report_version, push, report_disk_state,
               alter, reporterVars>>

\* lock_guard<MutexLock> worker_thread_lock(_worker_thread_lock) of a worker
\* loop: the thread blocks until the pool's mutex is free
LockPool(w) ==
    /\ pc[w] = "idle"
    /\ lock_owner[PoolOf(w)] = NoThread
    /\ lock_owner' = [lock_owner EXCEPT ![PoolOf(w)] = w]
    /\ pc' = [pc EXCEPT ![w] = "locked"]
    /\ UNCHANGED <<lockFrame, tasks, registryVars, agent_task_req, user,
                   index, finish_task_request, try_time, status, clone,
                   finish_rpcs, historyVars, next_task, submit_call,
                   report_task>>

\* while (_tasks.empty()) wait(): the wait releases the pool's mutex, and the
\* woken thread takes it again before it re-tests the queue
WaitForTask(w) ==
    /\ pc[w] = "locked"
    /\ tasks[PoolOf(w)] = <<>>
    /\ lock_owner' = [lock_owner EXCEPT ![PoolOf(w)] = NoThread]
    /\ pc' = [pc EXCEPT ![w] = "wait"]
    /\ UNCHANGED <<lockFrame, tasks, registryVars, agent_task_req, user,
                   index, finish_task_request, try_time, status, clone,
                   finish_rpcs, historyVars, next_task, submit_call,
                   report_task>>

\* front() and pop_front() of the worker loops other than the push loop, and
\* the end of the block under the pool's mutex
TakeFront(w) ==
    /\ PoolOf(w) \notin PushPools
    /\ pc[w] = "locked"
    /\ tasks[PoolOf(w)] # <<>>
    /\ agent_task_req' = [agent_task_req EXCEPT ![w] = Head(tasks[PoolOf(w)])]
    /\ tasks' = [tasks EXCEPT ![PoolOf(w)] = Tail(@)]
    /\ lock_owner' = [lock_owner EXCEPT ![PoolOf(w)] = NoThread]
    /\ pc' = [pc EXCEPT ![w] = "exec"]
    /\ UNCHANGED <<lockFrame, registryVars, user, index, finish_task_request,
                   try_time, status, clone, finish_rpcs, historyVars,
                   next_task, submit_call, report_task>>

\* the call of _get_next_task_index on a queue that is not empty
EnterGetNextTaskIndex(w) ==
    /\ PoolOf(w) \in PushPools
    /\ pc[w] = "locked"
    /\ tasks[PoolOf(w)] # <<>>
    /\ next_task' = [next_task EXCEPT ![w] = NoScan]
    /\ pc' = [pc EXCEPT ![w] = "scan"]
    /\ UNCHANGED <<lockFrame, tasks, registryVars, agent_task_req, user,
                   index, finish_task_request, try_time, status, clone,
                   finish_rpcs, historyVars, lock_owner, submit_call,
                   report_task>>

\* the `user` of the loop iteration at position i of queue q
ScanUser(w, q) ==
    IF q[next_task[w].i + 1].isset_resource_info
    THEN q[next_task[w].i + 1].user ELSE next_task[w].user

\* The head of a loop iteration, up to the point where the rates are
\* computed: the HIGH lane breaks at a HIGH task and goes on otherwise, the
\* NORMAL lane goes on past the task of an improper user.
ScanIteration(w) ==
    /\ pc[w] = "scan"
    /\ LET q == tasks[PoolOf(w)]
           l == next_task[w]
       IN IF l.i >= Len(q)
          THEN /\ pc' = [pc EXCEPT ![w] = "scan_end"]
               /\ UNCHANGED next_task
          ELSE LET task == q[l.i + 1]
                   u == ScanUser(w, q)
               IN IF priority[w] = "HIGH"
                  THEN IF task.isset_priority /\ task.priority = "HIGH"
                       THEN /\ next_task' = [next_task EXCEPT ![w] =
                                   [l EXCEPT !.user = u, !.index = l.i]]
                            /\ pc' = [pc EXCEPT ![w] = "mark"]
                       ELSE /\ next_task' = [next_task EXCEPT ![w] =
                                   [l EXCEPT !.user = u, !.i = l.i + 1]]
                            /\ pc' = pc
                  ELSE IF u \in l.improper_users
                       THEN /\ next_task' = [next_task EXCEPT ![w] =
                                   [l EXCEPT !.user = u, !.i = l.i + 1]]
                            /\ pc' = pc
                       ELSE /\ next_task' = [next_task EXCEPT ![w] =
                                   [l EXCEPT !.user = u]]
                            /\ pc' = [pc EXCEPT ![w] = "rate_lock"]
    /\ UNCHANGED <<lockFrame, tasks, registryVars, agent_task_req, user,
                   index, finish_task_request, try_time, status, clone,
                   finish_rpcs, historyVars, lock_owner, submit_call,
                   report_task>>

\* lock_guard<MutexLock> task_signatures_lock of the block that computes the
\* rates
LockRates(w) ==
    /\ pc[w] = "rate_lock"
    /\ lock_owner["_s_task_signatures_lock"] = NoThread
    /\ lock_owner' = [lock_owner EXCEPT ![ "_s_task_signatures_lock"] = w]
    /\ pc' = [pc EXCEPT ![w] = "rate"]
    /\ UNCHANGED <<lockFrame, tasks, registryVars, agent_task_req, user,
                   index, finish_task_request, try_time, status, clone,
                   finish_rpcs, historyVars, next_task, submit_call,
                   report_task>>

\* user_total_rate and user_running_rate, read from the three count maps
\* under _s_task_signatures_lock, and the end of that block
ComputeRates(w) ==
    /\ pc[w] = "rate"
    /\ LET task == tasks[PoolOf(w)][next_task[w].i + 1]
           u == next_task[w].user
       IN next_task' = [next_task EXCEPT
              ![w].user_running_rate_le_user_total_rate =
                  RunningRateLeTotalRate(
                      running_task_user_count[task.task_type][u] + 1,
                      config.push_worker_count_normal_priority
                          + config.push_worker_count_high_priority,
                      total_task_user_count[task.task_type][u],
                      total_task_count[task.task_type])]
    /\ lock_owner' = [lock_owner EXCEPT ![ "_s_task_signatures_lock"] = NoThread]
    /\ pc' = [pc EXCEPT ![w] = "test"]
    /\ UNCHANGED <<lockFrame, tasks, registryVars, agent_task_req, user,
                   index, finish_task_request, try_time, status, clone,
                   finish_rpcs, historyVars, submit_call, report_task>>

\* The log statement and the test after the block: both read the count maps
\* again, with the pool's mutex as the only lock held.  The task is
\* selected, or its user becomes improper.
TestRates(w) ==
    /\ pc[w] = "test"
    /\ LET l == next_task[w]
           task == tasks[PoolOf(w)][l.i + 1]
       IN IF \/ running_task_user_count[task.task_type][l.user] = 0
             \/ l.user_running_rate_le_user_total_rate
          THEN /\ next_task' = [next_task EXCEPT ![w] = [l EXCEPT !.index = l.i]]
               /\ pc' = [pc EXCEPT ![w] = "mark"]
          ELSE /\ next_task' = [next_task EXCEPT ![w] =
                      [l EXCEPT !.improper_users = @ \cup {l.user},
                                !.i = l.i + 1]]
               /\ pc' = [pc EXCEPT ![w] = "scan"]
    /\ UNCHANGED <<lockFrame, tasks, registryVars, agent_task_req, user,
                   index, finish_task_request, try_time, status, clone,
                   finish_rpcs, historyVars, lock_owner, submit_call,
                   report_task>>

\* The end of the loop without a selection.  The HIGH lane returns -1, and
\* the callback notifies, leaves its block and sleeps; the NORMAL lane falls
\* back to the head and its user.
ScanEnd(w) ==
    /\ pc[w] = "scan_end"
    /\ IF priority[w] = "HIGH"
       THEN /\ index' = [index EXCEPT ![w] = -1]
            /\ lock_owner' = [lock_owner EXCEPT ![PoolOf(w)] = NoThread]
            /\ pc' \in Notify(PoolOf(w), [pc EXCEPT ![w] = "sleep"])
            /\ UNCHANGED next_task
       ELSE /\ next_task' = [next_task EXCEPT ![w] =
                   [@ EXCEPT !.index = 0,
                             !.user = IF tasks[PoolOf(w)][1].isset_resource_info
                                      THEN tasks[PoolOf(w)][1].user ELSE ""]]
            /\ pc' = [pc EXCEPT ![w] = "mark"]
            /\ UNCHANGED <<index, lock_owner>>
    /\ UNCHANGED <<lockFrame, tasks, registryVars, agent_task_req, user,
                   finish_task_request, try_time, status, clone,
                   finish_rpcs, historyVars, submit_call, report_task>>

\* lock_guard<MutexLock> running_task_user_count_lock of
\* _get_next_task_index
LockRunning(w) ==
    /\ pc[w] = "mark"
    /\ lock_owner["_s_running_task_user_count_lock"] = NoThread
    /\ lock_owner' = [lock_owner EXCEPT ![ "_s_running_task_user_count_lock"] = w]
    /\ pc' = [pc EXCEPT ![w] = "mark_write"]
    /\ UNCHANGED <<lockFrame, tasks, registryVars, agent_task_req, user,
                   index, finish_task_request, try_time, status, clone,
                   finish_rpcs, historyVars, next_task, submit_call,
                   report_task>>

\* The increment of the running count and the return of the index; the
\* callback copies the task, sets its own `user`, erases the task and leaves
\* the block under the pool's mutex.
MarkRunning(w) ==
    /\ pc[w] = "mark_write"
    /\ LET q == tasks[PoolOf(w)]
           l == next_task[w]
           task == q[l.index + 1]
       IN /\ running_task_user_count' =
                 [running_task_user_count EXCEPT ![task.task_type][l.user] = @ + 1]
          /\ index' = [index EXCEPT ![w] = l.index]
          /\ agent_task_req' = [agent_task_req EXCEPT ![w] = task]
          /\ user' = [user EXCEPT ![w] =
                         IF task.isset_resource_info THEN task.user ELSE ""]
          /\ tasks' = [tasks EXCEPT ![PoolOf(w)] = Erase(q, l.index)]
    /\ lock_owner' = [lock_owner EXCEPT
                         ![ "_s_running_task_user_count_lock"] = NoThread,
                         ![PoolOf(w)] = NoThread]
    /\ pc' = [pc EXCEPT ![w] = "exec"]
    /\ UNCHANGED <<lockFrame, task_signatures, total_task_user_count,
                   total_task_count, finish_task_request, try_time, status,
                   clone, finish_rpcs, historyVars, next_task, submit_call,
                   report_task>>

\* the block of the push callback that sets `priority`, under the pool's
\* mutex
LockedPushStart(w) ==
    /\ lock_owner[PoolOf(w)] = NoThread
    /\ PushStart(w)

\* lock_guard<MutexLock> task_signatures_lock of _remove_task_info
LockRemove(w) ==
    /\ pc[w] = "remove"
    /\ lock_owner["_s_task_signatures_lock"] = NoThread
    /\ lock_owner' = [lock_owner EXCEPT ![ "_s_task_signatures_lock"] = w]
    /\ pc' = [pc EXCEPT ![w] = "remove_info"]
    /\ UNCHANGED <<lockFrame, tasks, registryVars, agent_task_req, user,
                   index, finish_task_request, try_time, status, clone,
                   finish_rpcs, historyVars, next_task, submit_call,
                   report_task>>

\* the locals a worker loop starts its next iteration with
NextIteration(w) ==
    /\ agent_task_req' = [agent_task_req EXCEPT ![w] = NoTask]
    /\ user' = [user EXCEPT ![w] = ""]
    /\ index' = [index EXCEPT ![w] = 0]
    /\ finish_task_request' = [finish_task_request EXCEPT ![w] = NoReport]
    /\ try_time' = [try_time EXCEPT ![w] = 0]
    /\ status' = [status EXCEPT ![w] = "PALO_SUCCESS"]
    /\ clone' = [clone EXCEPT ![w] = NoClone]
    /\ finish_rpcs' = [finish_rpcs EXCEPT ![w] = <<>>]

\* _remove_task_info up to the inner block: the signature and, for a PUSH
\* task, the two total counts.  For any other type the function returns
\* here.
RemoveInfo(w) ==
    /\ pc[w] = "remove_info"
    /\ LET u == IF PoolOf(w) \in PushPools THEN user[w] ELSE ""
           r == RemoveTaskInfo(task_signatures, total_task_user_count,
                               total_task_count, running_task_user_count,
                               agent_task_req[w].task_type,
                               agent_task_req[w].signature, u)
       IN /\ task_signatures' = r.sigs
          /\ total_task_user_count' = r.tot_user
          /\ total_task_count' = r.tot
    /\ IF agent_task_req[w].task_type = "PUSH"
       THEN /\ pc' = [pc EXCEPT ![w] = "remove_running_lock"]
            /\ UNCHANGED <<lock_owner, agent_task_req, user, index,
                           finish_task_request, try_time, status, clone,
                           finish_rpcs>>
       ELSE /\ pc' = [pc EXCEPT ![w] = "idle"]
            /\ lock_owner' = [lock_owner EXCEPT
                                 ![ "_s_task_signatures_lock"] = NoThread]
            /\ NextIteration(w)
    /\ UNCHANGED <<lockFrame, tasks, running_task_user_count, historyVars,
                   next_task, submit_call, report_task>>

\* lock_guard<MutexLock> running_task_user_count_lock of _remove_task_info,
\* taken inside the block under _s_task_signatures_lock
LockRemoveRunning(w) ==
    /\ pc[w] = "remove_running_lock"
    /\ lock_owner["_s_running_task_user_count_lock"] = NoThread
    /\ lock_owner' = [lock_owner EXCEPT ![ "_s_running_task_user_count_lock"] = w]
    /\ pc' = [pc EXCEPT ![w] = "remove_running"]
    /\ UNCHANGED <<lockFrame, tasks, registryVars, agent_task_req, user,
                   index, finish_task_request, try_time, status, clone,
                   finish_rpcs, historyVars, next_task, submit_call,
                   report_task>>

\* the decrement of the running count and the end of both blocks
RemoveRunning(w) ==
    /\ pc[w] = "remove_running"
    /\ LET r == RemoveTaskInfo(task_signatures, total_task_user_count,
                               total_task_count, running_task_user_count,
                               agent_task_req[w].task_type,
                               agent_task_req[w].signature, user[w])
       IN running_task_user_count' = r.running
    /\ lock_owner' = [lock_owner EXCEPT
                         ![ "_s_running_task_user_count_lock"] = NoThread,
                         ![ "_s_task_signatures_lock"] = NoThread]
    /\ pc' = [pc EXCEPT ![w] = "idle"]
    /\ NextIteration(w)
    /\ UNCHANGED <<lockFrame, tasks, task_signatures, total_task_user_count,
                   total_task_count, historyVars, next_task, submit_call,
                   report_task>>

\* what no step of a submitter or of the task reporter changes
callFrame == <<config, s_worker_count, report_version, priority, local_dir,
               request_report_version, push, agent_task_req, user, index,
               finish_task_request, try_time, status, clone, finish_rpcs,
               next_task, running_task_user_count, executed, reports,
               report_disk_state, alter, reporterVars>>

\* submit_task(task) by thread c, up to the lock_guard of _record_task_info
LockRecord(c, task) ==
    /\ submit_call[c].pc = "idle"
    /\ lock_owner["_s_task_signatures_lock"] = NoThread
    /\ lock_owner' = [lock_owner EXCEPT ![ "_s_task_signatures_lock"] = c]
    /\ submit_call' = [submit_call EXCEPT ![c] = [pc |-> "record", task |-> task]]
    /\ UNCHANGED <<callFrame, tasks, task_signatures, total_task_user_count,
                   total_task_count, submitting, pc, submitted, resubmitted,
                   report_task>>

\* a _record_task_info whose lock is still held when submit_task goes on
RecordInfo_KeepsLock(c) ==
    /\ submit_call[c].pc = "record"
    /\ LET task == submit_call[c].task
           u == IF task.isset_resource_info THEN task.user ELSE ""
           r == RecordTaskInfo(task_signatures, total_task_user_count,
                               total_task_count, task.task_type,
                               task.signature, u)
       IN /\ task_signatures' = r.sigs
          /\ total_task_user_count' = r.tot_user
          /\ total_task_count' = r.tot
          /\ submitting' = IF r.ret
                           THEN submitting \cup {[pool |-> task.task_type, task |-> task]}
                           ELSE submitting
          /\ submit_call' = [submit_call EXCEPT ![c] =
                                IF r.ret THEN [@ EXCEPT !.pc = "enqueue_lock"]
                                ELSE NoCall]
          /\ lock_owner' = IF r.ret THEN lock_owner
                           ELSE [lock_owner EXCEPT
                                    ![ "_s_task_signatures_lock"] = NoThread]
          /\ submitted' = [submitted EXCEPT ![KeyOf(task)] = @ + 1]
          /\ resubmitted' = IF task.signature \in task_signatures[task.task_type]
                            THEN [resubmitted EXCEPT ![KeyOf(task)] = @ + 1]
                            ELSE resubmitted
    /\ UNCHANGED <<callFrame, tasks, pc, report_task>>

\* The body of _record_task_info and its return, which ends the block under
\* _s_task_signatures_lock; submit_task returns when the result is false.
RecordInfo(c) ==
    /\ submit_call[c].pc = "record"
    /\ LET task == submit_call[c].task
           u == IF task.isset_resource_info THEN task.user ELSE ""
           r == RecordTaskInfo(task_signatures, total_task_user_count,
                               total_task_count, task.task_type,
                               task.signature, u)
       IN /\ task_signatures' = r.sigs
          /\ total_task_user_count' = r.tot_user
          /\ total_task_count' = r.tot
          /\ submitting' = IF r.ret
                           THEN submitting \cup {[pool |-> task.task_type, task |-> task]}
                           ELSE submitting
          /\ submit_call' = [submit_call EXCEPT ![c] =
                                IF r.ret THEN [@ EXCEPT !.pc = "enqueue_lock"]
                                ELSE NoCall]
          /\ submitted' = [submitted EXCEPT ![KeyOf(task)] = @ + 1]
          /\ resubmitted' = IF task.signature \in task_signatures[task.task_type]
                            THEN [resubmitted EXCEPT ![KeyOf(task)] = @ + 1]
                            ELSE resubmitted
    /\ lock_owner' = [lock_owner EXCEPT ![ "_s_task_signatures_lock"] = NoThread]
    /\ UNCHANGED <<callFrame, tasks, pc, report_task>>

\* lock_guard<MutexLock> worker_thread_lock of submit_task
LockEnqueue(c) ==
    /\ submit_call[c].pc = "enqueue_lock"
    /\ lock_owner[submit_call[c].task.task_type] = NoThread
    /\ lock_owner' = [lock_owner EXCEPT ![submit_call[c].task.task_type] = c]
    /\ submit_call' = [submit_call EXCEPT ![c].pc = "enqueue"]
    /\ UNCHANGED <<callFrame, tasks, task_signatures, total_task_user_count,
                   total_task_count, submitting, pc, submitted, resubmitted,
                   report_task>>

\* push_back, notify and the end of the block and of submit_task; the
\* thread releases whatever it holds
Enqueue(c) ==
    /\ submit_call[c].pc = "enqueue"
    /\ LET task == submit_call[c].task
       IN /\ tasks' = [tasks EXCEPT ![task.task_type] = Append(@, task)]
          /\ pc' \in Notify(task.task_type, pc)
          /\ submitting' = submitting \ {[pool |-> task.task_type, task |-> task]}
    /\ lock_owner' = [l \in Locks |->
                         IF lock_owner[l] = c THEN NoThread ELSE lock_owner[l]]
    /\ submit_call' = [submit_call EXCEPT ![c] = NoCall]
    /\ UNCHANGED <<callFrame, task_signatures, total_task_user_count,
                   total_task_count, submitted, resubmitted, report_task>>

\* lock_guard<MutexLock> task_signatures_lock of the task reporter
LockReportTasks ==
    /\ report_task = "idle"
    /\ lock_owner["_s_task_signatures_lock"] = NoThread
    /\ lock_owner' = [lock_owner EXCEPT
                         ![ "_s_task_signatures_lock"] = ReportTaskThread]
    /\ report_task' = "set_tasks"
    /\ UNCHANGED <<callFrame, tasks, task_signatures, total_task_user_count,
                   total_task_count, submitting, pc, submitted, resubmitted,
                   submit_call>>

\* request.__set_tasks(_s_task_signatures) and the end of the block; the
\* report and the sleep that follow take no lock
ReportSetTasks ==
    /\ report_task = "set_tasks"
    /\ lock_owner' = [lock_owner EXCEPT
                         ![ "_s_task_signatures_lock"] = NoThread]
    /\ report_task' = "idle"
    /\ UNCHANGED <<callFrame, tasks, task_signatures, total_task_user_count,
                   total_task_count, submitting, pc, submitted, resubmitted,
                   submit_call>>

\* ------------------------------------------------------ specifications
\* a behaviour has at most n submit_task calls
CanSubmit(n) == TotalSubmitted < n

\* the tasks submitted when at most n calls are made: n signatures suffice
Submittable(pool, n) == {t \in RoutedTo(pool) : t.signature <= n}

CreateTableSubmits == Submittable("CREATE_TABLE", MaxSubmits)

PushSubmits == Submittable("PUSH", MaxSubmits)

DeleteSubmits == Submittable("DELETE", MaxSubmits)

CloneSubmits == Submittable("CLONE", MaxSubmits)

Next ==
    \/ \E task \in CreateTableSubmits \cup PushSubmits
                       \cup DeleteSubmits \cup CloneSubmits :
          CanSubmit(MaxSubmits) /\ SubmitRecord(task.task_type, task)
    \/ \E s \in submitting : SubmitEnqueue(s)
    \/ \E w \in WorkerIds : PoolOf(w) = "CREATE_TABLE" /\ CreateTableWorkerStep(w)
    \/ \E w \in WorkerIds : PoolOf(w) \in PushPools /\ PushWorkerStep(w)
    \/ \E w \in WorkerIds :
          /\ PoolOf(w) = "CLONE"
          /\ \/ CloneWorkerStep(w, Listings, TTabletInfo)
             \/ \E client_status \in ClientStatuses : FinishTask(w, client_status)
             \/ WorkerRemove(w)
    \/ ReportOlapTable

Spec == Init /\ [][Next]_vars

\* The create-table pool alone: only CREATE_TABLE tasks are submitted.
NextCreate ==
    \/ \E task \in CreateTableSubmits :
          CanSubmit(MaxSubmits) /\ SubmitRecord("CREATE_TABLE", task)
    \/ \E s \in submitting : SubmitEnqueue(s)
    \/ \E w \in WorkerIds : PoolOf(w) = "CREATE_TABLE" /\ CreateTableWorkerStep(w)

SpecCreate == Init /\ [][NextCreate]_vars

\* The push pool alone, with every push and every finishTask RPC
\* succeeding: only PUSH tasks are submitted.
PushSchedulingStep(w) ==
    \/ PushStart(w)
    \/ PushTake(w)
    \/ PushSleep(w)
    \/ PushExec(w, "PALO_SUCCESS")
    \/ FinishTask(w, "PALO_SUCCESS")
    \/ WorkerRemove(w)

NextPush ==
    \/ \E task \in PushSubmits :
          CanSubmit(MaxSubmits) /\ SubmitRecord("PUSH", task)
    \/ \E s \in submitting : SubmitEnqueue(s)
    \/ \E w \in WorkerIds : PoolOf(w) = "PUSH" /\ PushSchedulingStep(w)

SpecPush == Init /\ [][NextPush]_vars

\* Fair scheduling: every worker thread that can take a step eventually
\* takes one (engine and RPC calls return, mutexes are granted), and a
\* submit_task call that has recorded its task goes on to enqueue it.
FairSpecPush ==
    /\ SpecPush
    /\ \A w \in WorkerIds : WF_vars(PoolOf(w) = "PUSH" /\ PushSchedulingStep(w))
    /\ WF_vars(\E s \in submitting : SubmitEnqueue(s))

\* The push pool, fairly scheduled, in the configurations that give it a
\* NORMAL-lane worker.
InitNormalLane ==
    /\ Init
    /\ config.push_worker_count_normal_priority >= 1

FairSpecNormalLane ==
    /\ InitNormalLane
    /\ [][NextPush]_vars
    /\ \A w \in WorkerIds : WF_vars(PoolOf(w) = "PUSH" /\ PushSchedulingStep(w))
    /\ WF_vars(\E s \in submitting : SubmitEnqueue(s))

\* The push pool whose workers run the branch on push_req.push_type and the
\* retry loop of a load with every result of their calls: pushes of user A
\* are submitted, and every finishTask RPC succeeds.
PushRetryStep(w) ==
    \/ PushStart(w)
    \/ PushTake(w)
    \/ PushSleep(w)
    \/ \E push_type \in PushTypes, init_status \in AgentStatuses,
          delete_data_status \in OLAPStatuses :
          PushBranch(w, push_type, init_status, delete_data_status)
    \/ \E process_status \in AgentStatuses : PushProcess(w, process_status)
    \/ PushReport(w)
    \/ FinishTask(w, "PALO_SUCCESS")
    \/ WorkerRemove(w)

PushRetrySubmits == {t \in PushSubmits : t.user = "A"}

NextPushRetry ==
    \/ \E task \in PushRetrySubmits :
          CanSubmit(MaxSubmits) /\ SubmitRecord("PUSH", task)
    \/ \E s \in submitting : SubmitEnqueue(s)
    \/ \E w \in WorkerIds : PoolOf(w) = "PUSH" /\ PushRetryStep(w)

SpecPushRetry == Init /\ [][NextPushRetry]_vars

\* The push pool with one NORMAL-lane worker and the three pushes of two
\* users: signatures 1 and 2 of user A, signature 3 of user B, none with a
\* priority.  Every push and every finishTask RPC succeeds.
PushOf(signature, u) ==
    [task_type |-> "PUSH", signature |-> signature,
     isset_resource_info |-> TRUE, user |-> u,
     isset_priority |-> FALSE, priority |-> "NORMAL",
     clone_req |-> NoCloneReq]

FairnessSubmits == {PushOf(1, "A"), PushOf(2, "A"), PushOf(3, "B")}

InitFairness ==
    /\ Init
    /\ config.push_worker_count_normal_priority = 1

NextFairness ==
    \/ \E task \in FairnessSubmits :
          CanSubmit(MaxSignatures) /\ SubmitRecord("PUSH", task)
    \/ \E s \in submitting : SubmitEnqueue(s)
    \/ \E w \in WorkerIds : PoolOf(w) = "PUSH" /\ PushSchedulingStep(w)

SpecFairness == InitFairness /\ [][NextFairness]_vars

\* The delete pool alone: only DELETE tasks are submitted, and its workers
\* run the push callback.
NextDelete ==
    \/ \E task \in DeleteSubmits :
          CanSubmit(MaxSubmits) /\ SubmitRecord("DELETE", task)
    \/ \E s \in submitting : SubmitEnqueue(s)
    \/ \E w \in WorkerIds : PoolOf(w) = "DELETE" /\ PushWorkerStep(w)

SpecDelete == Init /\ [][NextDelete]_vars

\* The push pool with every outcome of a push, the create-table pool and
\* the tablet reporter: the threads that write or read _s_report_version.
\* Every finishTask RPC succeeds.
ReportVersionWorkerStep(w) ==
    \/ PoolOf(w) = "PUSH" /\ PushStart(w)
    \/ PoolOf(w) = "PUSH" /\ PushTake(w)
    \/ PoolOf(w) = "PUSH" /\ PushSleep(w)
    \/ PoolOf(w) = "PUSH" /\ \E push_status \in {"PALO_SUCCESS", "PALO_ERROR"} :
          PushExec(w, push_status)
    \/ CreateTableTake(w)
    \/ \E create_status \in OLAPStatuses : CreateTableExec(w, create_status)
    \/ PoolOf(w) \in {"PUSH", "CREATE_TABLE"} /\ FinishTask(w, "PALO_SUCCESS")
    \/ PoolOf(w) \in {"PUSH", "CREATE_TABLE"} /\ WorkerRemove(w)

NextReport ==
    \/ \E task \in CreateTableSubmits \cup PushSubmits :
          CanSubmit(MaxSubmits) /\ SubmitRecord(task.task_type, task)
    \/ \E s \in submitting : SubmitEnqueue(s)
    \/ \E w \in WorkerIds : ReportVersionWorkerStep(w)
    \/ ReportOlapTable

SpecReport == Init /\ [][NextReport]_vars

\* The clone pool alone, copying from up to MaxSrcBackends sources any
\* listing of Listings: only CLONE tasks without a committed version are
\* submitted, the tablet info is a fixed one and every finishTask RPC
\* succeeds.
CloneCopySubmits ==
    {t \in CloneSubmits :
        /\ t.signature = 1
        /\ ~t.clone_req.isset_committed_version
        /\ ~t.clone_req.isset_committed_version_hash}

NextCloneCopy ==
    \/ \E task \in CloneCopySubmits :
          CanSubmit(MaxCloneSubmits) /\ SubmitRecord("CLONE", task)
    \/ \E s \in submitting : SubmitEnqueue(s)
    \/ \E w \in WorkerIds :
          /\ PoolOf(w) = "CLONE"
          /\ \/ CloneWorkerStep(w, Listings,
                                 {[version |-> 1, version_hash |-> 1]})
             \/ FinishTask(w, "PALO_SUCCESS")
             \/ WorkerRemove(w)

SpecCloneCopy == Init /\ [][NextCloneCopy]_vars

\* The clone pool alone, with every tablet info and every finishTask
\* result: only CLONE tasks are submitted, with at most one source
\* backend, which lists one header file, and with a committed version and
\* hash that are not set or are the middle version and the first hash.
CloneReportSubmits ==
    {t \in CloneSubmits :
        /\ t.signature = 1
        /\ t.clone_req.src_backends <= 1
        /\ t.clone_req.committed_version \in {0, 2}
        /\ t.clone_req.committed_version_hash \in {0, 1}}

NextClone ==
    \/ \E task \in CloneReportSubmits :
          CanSubmit(MaxSubmits) /\ SubmitRecord("CLONE", task)
    \/ \E s \in submitting : SubmitEnqueue(s)
    \/ \E w \in WorkerIds :
          /\ PoolOf(w) = "CLONE"
          /\ \/ CloneWorkerStep(w, {header_hdr}, TTabletInfo)
             \/ \E client_status \in ClientStatuses : FinishTask(w, client_status)
             \/ WorkerRemove(w)

SpecClone == Init /\ [][NextClone]_vars

\* The push pool and the clone pool together, with every outcome of a
\* push and of a clone: one push and the clone requests with one source
\* backend and no committed version are submitted, a source lists one
\* header file, and the finishTask RPC of a clone succeeds.
StatusSubmits ==
    {PushOf(1, "A")} \cup {t \in CloneCopySubmits : t.clone_req.src_backends = 1}

NextStatus ==
    \/ \E task \in StatusSubmits :
          CanSubmit(MaxSubmits) /\ SubmitRecord(task.task_type, task)
    \/ \E s \in submitting : SubmitEnqueue(s)
    \/ \E w \in WorkerIds : PoolOf(w) = "PUSH" /\ PushWorkerStep(w)
    \/ \E w \in WorkerIds :
          /\ PoolOf(w) = "CLONE"
          /\ \/ CloneWorkerStep(w, {header_hdr},
                                 {[version |-> 1, version_hash |-> 1]})
             \/ FinishTask(w, "PALO_SUCCESS")
             \/ WorkerRemove(w)

SpecStatus == Init /\ [][NextStatus]_vars

\* The push pool with two pushes of user A and one push that carries no
\* resource_info, none with a priority.  Every push and every finishTask
\* RPC succeeds.
PushWithoutUser(signature) ==
    [task_type |-> "PUSH", signature |-> signature,
     isset_resource_info |-> FALSE, user |-> "",
     isset_priority |-> FALSE, priority |-> "NORMAL",
     clone_req |-> NoCloneReq]

SelectionSubmits == {PushOf(1, "A"), PushOf(2, "A"), PushWithoutUser(3)}

NextSelection ==
    \/ \E task \in SelectionSubmits :
          CanSubmit(MaxSignatures) /\ SubmitRecord("PUSH", task)
    \/ \E s \in submitting : SubmitEnqueue(s)
    \/ \E w \in WorkerIds : PoolOf(w) = "PUSH" /\ PushSchedulingStep(w)

SpecSelection == Init /\ [][NextSelection]_vars

\* The push pool and the delete pool together, whose workers all run the
\* push callback and share its function-static s_worker_count: PUSH and
\* DELETE tasks of user A or without a user, with priority HIGH or none, are
\* submitted, and every push, delete and finishTask RPC succeeds.
PushLoopSubmits ==
    {t \in PushSubmits \cup DeleteSubmits :
        /\ t.user # "B"
        /\ (t.isset_priority => t.priority = "HIGH")}

NextPushLoop ==
    \/ \E task \in PushLoopSubmits :
          CanSubmit(MaxSubmits) /\ SubmitRecord(task.task_type, task)
    \/ \E s \in submitting : SubmitEnqueue(s)
    \/ \E w \in WorkerIds : PoolOf(w) \in PushPools /\ PushSchedulingStep(w)

SpecPushLoop == Init /\ [][NextPushLoop]_vars

\* The push pool, the create-table pool, two submitter threads and the task
\* reporter, with every acquisition of a mutex a step of its own: pushes of
\* user A without a priority and create-table tasks are submitted, and
\* every engine call and finishTask RPC succeeds.
LockSubmits ==
    {t \in PushSubmits : t.user = "A" /\ ~t.isset_priority}
        \cup CreateTableSubmits

\* submit_task calls that have not yet come to _record_task_info's body
CallsAtRecord == {c \in Submitters : submit_call[c].pc = "record"}

SubmitterStep(c) ==
    \/ \E task \in LockSubmits :
          /\ TotalSubmitted + Cardinality(CallsAtRecord) < MaxSubmits
          /\ LockRecord(c, task)
    \/ RecordInfo(c)
    \/ LockEnqueue(c)
    \/ Enqueue(c)

PushLockStep(w) ==
    \/ LockedPushStart(w)
    \/ LockPool(w)
    \/ WaitForTask(w)
    \/ EnterGetNextTaskIndex(w)
    \/ ScanIteration(w)
    \/ LockRates(w)
    \/ ComputeRates(w)
    \/ TestRates(w)
    \/ ScanEnd(w)
    \/ LockRunning(w)
    \/ MarkRunning(w)
    \/ PushSleep(w)
    \/ PushExec(w, "PALO_SUCCESS")
    \/ FinishTask(w, "PALO_SUCCESS")
    \/ LockRemove(w)
    \/ RemoveInfo(w)
    \/ LockRemoveRunning(w)
    \/ RemoveRunning(w)

CreateTableLockStep(w) ==
    \/ LockPool(w)
    \/ WaitForTask(w)
    \/ TakeFront(w)
    \/ CreateTableExec(w, "OLAP_SUCCESS")
    \/ FinishTask(w, "PALO_SUCCESS")
    \/ LockRemove(w)
    \/ RemoveInfo(w)

NextLocks ==
    \/ \E c \in Submitters : SubmitterStep(c)
    \/ \E w \in WorkerIds : PoolOf(w) = "PUSH" /\ PushLockStep(w)
    \/ \E w \in WorkerIds : PoolOf(w) = "CREATE_TABLE" /\ CreateTableLockStep(w)
    \/ LockReportTasks
    \/ ReportSetTasks

SpecLocks == Init /\ [][NextLocks]_vars

\* the pool whose submit_task is called for a task of each type
PoolFor ==
    [task_type \in AllTaskTypes |->
        CHOOSE pool \in AllPools : task_type \in TaskTypesOf(pool)]

\* every pool started, the push pool with one NORMAL-lane worker
InitAllPoolsOnePush ==
    /\ InitAllPools
    /\ config.push_worker_count_normal_priority = 1
    /\ config.push_worker_count_high_priority = 0

\* The worker threads run independently of each other.  Explored are the
\* behaviours in which a worker thread is first scheduled after the first
\* submit_task call for its pool has recorded its task: until then the
\* thread could only find its queue empty and wait.
Scheduled(w) ==
    \/ pc[w] # "idle"
    \/ \E task_type \in TaskTypesOf(PoolOf(w)), signature \in Signatures :
          submitted[<<task_type, signature>>] > 0

GenericWorkerStep(w) ==
    \/ GenericTake(w)
    \/ \E succeeded \in BOOLEAN, get_tablet_info_status \in ClientStatuses :
          GenericExec(w, succeeded, get_tablet_info_status,
                      [version |-> 1, version_hash |-> 1])
    \/ \E alter_table_status \in AlterTableStatuses,
          drop_status \in ClientStatuses, ret \in OLAPStatuses,
          get_tablet_info_status \in ClientStatuses :
          AlterTableExec(w, alter_table_status, drop_status, ret,
                         get_tablet_info_status,
                         [version |-> 1, version_hash |-> 1])
    \/ FinishTask(w, "PALO_SUCCESS")
    \/ WorkerRemove(w)

\* a step of a clone worker on a request without source backends: the for
\* loop of _clone_copy is left at once
CloneWithoutSourceStep(w) ==
    \/ CloneTake(w)
    \/ \E tablet_exists \in BOOLEAN, olap_status \in OLAPStatuses :
          CloneCheck(w, tablet_exists, olap_status)
    \/ \E load_header_status \in OLAPStatuses :
          CloneLoadHeader(w, load_header_status, TRUE)
    \/ \E get_tablet_info_status \in ClientStatuses :
          CloneReport(w, get_tablet_info_status, [version |-> 1, version_hash |-> 1])
    \/ FinishTask(w, "PALO_SUCCESS")
    \/ WorkerRemove(w)

\* a step of a worker of a pool that is not scheduled by the push callback
FifoWorkerStep(w) ==
    \/ PoolOf(w) \in GenericPools /\ GenericWorkerStep(w)
    \/ /\ PoolOf(w) = "CREATE_TABLE"
       /\ \/ CreateTableTake(w)
          \/ \E create_status \in OLAPStatuses : CreateTableExec(w, create_status)
          \/ FinishTask(w, "PALO_SUCCESS")
          \/ WorkerRemove(w)
    \/ PoolOf(w) = "CLONE" /\ CloneWithoutSourceStep(w)

\* The pools other than the push and delete pools: tasks of every type with
\* either of two signatures are submitted (a clone has no source backend);
\* the engine calls return every result, and every finishTask RPC succeeds.
FifoSubmits ==
    {GenericTask(task_type, signature) :
        task_type \in AllTaskTypes \ {"PUSH", "DELETE"},
        signature \in 1..MaxSubmits}

NextFifo ==
    \/ /\ CanSubmit(MaxSubmits)
       /\ \E task \in FifoSubmits : SubmitRecord(PoolFor[task.task_type], task)
    \/ \E s \in submitting : SubmitEnqueue(s)
    \/ \E w \in AllWorkerIds : Scheduled(w) /\ FifoWorkerStep(w)

SpecFifo == InitAllPoolsOnePush /\ [][NextFifo]_vars

\* Every pool but the delete pool, and the three reporters: one task of
\* each type (the push of user A without a priority, the clone without a
\* source backend) is submitted; the engine calls return every result, and
\* every finishTask RPC succeeds.
AllPoolsSubmits ==
    {GenericTask(task_type, 1) : task_type \in AllTaskTypes \ {"PUSH", "DELETE"}}
        \cup {PushOf(1, "A")}

NextAllPools ==
    \/ /\ CanSubmit(MaxSubmits)
       /\ \E task \in AllPoolsSubmits : SubmitRecord(PoolFor[task.task_type], task)
    \/ \E s \in submitting : SubmitEnqueue(s)
    \/ \E w \in AllWorkerIds : Scheduled(w) /\ FifoWorkerStep(w)
    \/ \E w \in AllWorkerIds :
          /\ PoolOf(w) = "PUSH"
          /\ \/ PushStart(w)
             \/ Scheduled(w) /\ PushTake(w)
             \/ PushSleep(w)
             \/ \E push_status \in AgentStatuses : PushExec(w, push_status)
             \/ FinishTask(w, "PALO_SUCCESS")
             \/ WorkerRemove(w)
    \/ ReportTask
    \/ ReportDiskState
    \/ ReportOlapTable

SpecAllPools == InitAllPoolsOnePush /\ [][NextAllPools]_vars

\* a step of the alter worker, call by call
AlterWorkerStep(w) ==
    \/ AlterTableTake(w)
    \/ AlterSwitch(w)
    \/ \E alter_table_status \in AlterTableStatuses :
          AlterShowStatus(w, alter_table_status)
    \/ \E drop_status \in ClientStatuses : AlterDropTable(w, drop_status)
    \/ \E ret \in OLAPStatuses : AlterEngine(w, ret)
    \/ \E get_tablet_info_status \in ClientStatuses, tablet_info \in TTabletInfo :
          AlterGetTabletInfo(w, get_tablet_info_status, tablet_info)
    \/ AlterReport(w)
    \/ \E client_status \in ClientStatuses : FinishTask(w, client_status)
    \/ WorkerRemove(w)

\* what submit_task of the alter pool is called with: the two alter kinds,
\* and a kind the pool's switch has no case for
AlterSubmits ==
    {GenericTask(task_type, signature) :
        task_type \in AlterTaskTypes \cup {"DROP_TABLE"},
        signature \in 1..MaxSubmits}

\* The alter pool: its submit_task is called with tasks of the three kinds;
\* the engine calls return every result and the finishTask RPC every
\* status.
NextAlter ==
    \/ /\ CanSubmit(MaxSubmits)
       /\ \E task \in AlterSubmits : SubmitRecord("ALTER_TABLE", task)
    \/ \E s \in submitting : SubmitEnqueue(s)
    \/ \E w \in AllWorkerIds : PoolOf(w) = "ALTER_TABLE" /\ AlterWorkerStep(w)

SpecAlter == InitAllPoolsOnePush /\ [][NextAlter]_vars

\* The reporter pools, started in any order with any intervals, and the
\* first heartbeat at any moment.
IntervalSeconds == 1..MaxIntervalSeconds

NextReporters ==
    \/ \E port \in MasterPorts : Heartbeat(port)
    \/ \E r \in Reporters, interval_seconds \in IntervalSeconds : StartReporter(r, interval_seconds)
    \/ ReporterTaskTop
    \/ ReporterDiskTop
    \/ \E report_all_tablets_info_status \in OLAPStatuses : ReporterOlapTableTop(report_all_tablets_info_status)
    \/ \E r \in Reporters : ReporterSleep(r)
    \/ \E r \in Reporters, report_status \in ClientStatuses : ReporterReport(r, report_status)
    \/ \E r \in Reporters : ReporterWait(r)

SpecReporters == InitAllPoolsOnePush /\ [][NextReporters]_vars

\* The create-table and the check-consistency pool with engine calls that
\* return every result or throw; every finishTask RPC succeeds.
ThrowSubmits ==
    {GenericTask(task_type, signature) :
        task_type \in {"CREATE_TABLE", "CHECK_CONSISTENCY"},
        signature \in 1..MaxSubmits}

ThrowWorkerStep(w) ==
    \/ CreateTableTake(w)
    \/ \E create_status \in OLAPStatuses : CreateTableExec(w, create_status)
    \/ GenericTake(w)
    \/ \E succeeded \in BOOLEAN : GenericExec(w, succeeded, "PALO_SUCCESS", [version |-> 1, version_hash |-> 1])
    \/ EngineThrows(w)
    \/ Unwind(w)
    \/ FinishTask(w, "PALO_SUCCESS")
    \/ WorkerRemove(w)

NextThrow ==
    /\ ~Aborted
    /\ \/ /\ CanSubmit(MaxSubmits)
          /\ \E task \in ThrowSubmits : SubmitRecord(PoolFor[task.task_type], task)
       \/ \E s \in submitting : SubmitEnqueue(s)
       \/ \E w \in AllWorkerIds : PoolOf(w) \in {"CREATE_TABLE", "CHECK_CONSISTENCY"} /\ Scheduled(w) /\ ThrowWorkerStep(w)

SpecThrow == InitAllPoolsOnePush /\ [][NextThrow]_vars

\* ================================================================ claims
\* a worker that has taken a task out of its queue and has not yet
\* deregistered it
Holding(w) == pc[w] \notin {"none", "start", "idle", "wait", "sleep"}

PushWorkersExecuting == {w \in WorkerIds : PoolOf(w) = "PUSH" /\ Holding(w)}

QueuedTasks == UNION {{tasks[p][i] : i \in 1..Len(tasks[p])} : p \in Pools}

HeldTasks == {agent_task_req[w] : w \in {x \in WorkerIds : Holding(x)}}

SubmittingTasks == {s.task : s \in submitting}

\* the submit_task call of this step, if the step is one
SubmitCallOf(k) == submitted'[k] = submitted[k] + 1

\* C2: a submit_task call whose signature is already in inflight[kind]
\* appends nothing to any queue and leaves inflight, total, total_by_user
\* and running_by_user as they were, for PUSH as for any kind.
C2_DuplicateSubmitIsNoOp ==
    [][\A k \in Keys :
          (SubmitCallOf(k) /\ k[2] \in task_signatures[k[1]])
              => UNCHANGED <<tasks, submitting, registryVars, workerVars,
                             report_version>>]_vars

\* a PUSH signature has been submitted again while it was in flight
C2_Witness ==
    \E k \in Keys :
        /\ k[1] = "PUSH"
        /\ resubmitted[k] >= 1
        /\ k[2] \in task_signatures["PUSH"]
        /\ total_task_count["PUSH"] >= 1

\* C4: every queued task and every task a worker holds has its signature
\* in inflight[kind], and a signature leaves inflight only in the
\* _remove_task_info step of the worker that holds that task.
C4_QueuedOrExecutingIsInflight ==
    /\ [](\A t \in QueuedTasks \cup HeldTasks :
             t.signature \in task_signatures[t.task_type])
    /\ [][\A k \in Keys :
              (k[2] \in task_signatures[k[1]] /\ k[2] \notin task_signatures'[k[1]])
                  => \E w \in WorkerIds :
                        /\ pc[w] = "remove"
                        /\ pc'[w] = "idle"
                        /\ KeyOf(agent_task_req[w]) = k]_vars

\* one task has completed and been deregistered while another is queued
\* or held by a worker
C4_Witness ==
    /\ \E k \in Keys : executed[k] >= 1 /\ k[2] \notin task_signatures[k[1]]
    /\ QueuedTasks \cup HeldTasks # {}

\* C7: the per-user totals of PUSH add up to total[PUSH], and both equal
\* the number of signatures in inflight[PUSH].
C7_TotalsAgree ==
    /\ SumOver(total_task_user_count["PUSH"], UserKeys) = total_task_count["PUSH"]
    /\ total_task_count["PUSH"] = Cardinality(task_signatures["PUSH"])

\* two pushes of different users are in flight
C7_Witness ==
    /\ total_task_count["PUSH"] = 2
    /\ \E u1, u2 \in UserKeys :
          /\ u1 # u2
          /\ total_task_user_count["PUSH"][u1] = 1
          /\ total_task_user_count["PUSH"][u2] = 1
\* the step in which push worker w runs its block under the pool mutex with
\* a non-empty queue, i.e. calls _get_next_task_index
SelectionBy(w) ==
    /\ PoolOf(w) \in PushPools
    /\ pc[w] = "idle"
    /\ pc'[w] # "idle"
    /\ tasks[PoolOf(w)] # <<>>

IsHighTask(t) == t.isset_priority /\ t.priority = "HIGH"

\* the key under which submit_task and the push callback count a task
UserKeyOf(t) == IF t.isset_resource_info THEN t.user ELSE ""

\* C8: a HIGH-lane worker only takes and executes tasks whose priority is
\* set and HIGH; when the queue has none, its selection returns -1 and the
\* queue, inflight and the per-user counters stay as they were.
C8_HighLaneOnlyHigh ==
    /\ [](\A w \in PushWorkersExecuting :
             priority[w] = "HIGH" => IsHighTask(agent_task_req[w]))
    /\ [][\A w \in WorkerIds :
              (SelectionBy(w) /\ priority[w] = "HIGH") =>
                  LET q == tasks[PoolOf(w)]
                  IN IF \E i \in 1..Len(q) : IsHighTask(q[i])
                     THEN /\ pc'[w] = "exec"
                          /\ IsHighTask(agent_task_req'[w])
                          /\ \E i \in 1..Len(q) :
                                /\ q[i] = agent_task_req'[w]
                                /\ tasks'[PoolOf(w)] = Erase(q, i - 1)
                     ELSE /\ index'[w] = -1
                          /\ pc'[w] = "sleep"
                          /\ UNCHANGED <<tasks, registryVars, agent_task_req>>]_vars

\* a HIGH-lane worker that has executed a task before now finds only a
\* task that is not HIGH in its queue
C8_Witness ==
    \E w \in WorkerIds :
        /\ PoolOf(w) \in PushPools
        /\ priority[w] = "HIGH"
        /\ pc[w] = "sleep"
        /\ index[w] = -1
        /\ tasks[PoolOf(w)] # <<>>
        /\ \E k \in Keys : executed[k] >= 1

\* C9: a HIGH-lane selection on a queue holding a HIGH task takes the HIGH
\* task of lowest queue index, whatever precedes it and whatever the
\* per-user counters are.
C9_HighLaneTakesFirstHigh ==
    [][\A w \in WorkerIds :
          LET q == tasks[PoolOf(w)]
          IN (/\ SelectionBy(w)
              /\ priority[w] = "HIGH"
              /\ \E i \in 1..Len(q) : IsHighTask(q[i])) =>
                 LET first == CHOOSE i \in 1..Len(q) :
                                  /\ IsHighTask(q[i])
                                  /\ \A j \in 1..(i - 1) : ~IsHighTask(q[j])
                 IN /\ index'[w] = first - 1
                    /\ agent_task_req'[w] = q[first]
                    /\ tasks'[PoolOf(w)] = Erase(q, first - 1)]_vars

\* a HIGH-lane worker holds a HIGH task it took from behind the head
C9_Witness ==
    \E w \in PushWorkersExecuting :
        /\ priority[w] = "HIGH"
        /\ index[w] = 1
        /\ IsHighTask(agent_task_req[w])
        /\ Len(tasks[PoolOf(w)]) = 1
        /\ ~IsHighTask(tasks[PoolOf(w)][1])

\* user key u, with uint32 running count run, is above its fair share:
\* running > 0 and (running + 1) / thread_count > total_by_user / total
AboveShare(run, thread_count, tot_user, tot) ==
    /\ run # 0
    /\ thread_count > 0
    /\ tot > 0
    /\ (run < 0 \/ (run + 1) * tot > tot_user * thread_count)

C5_RunningSumIsExecuting ==
    /\ \A u \in UserKeys : running_task_user_count["PUSH"][u] >= 0
    /\ SumOver(running_task_user_count["PUSH"], UserKeys)
           = Cardinality(PushWorkersExecuting)

\* the push tasks of user key u that are submitted and not yet completed
PushTasksOf(u) ==
    {t \in QueuedTasks \cup HeldTasks \cup SubmittingTasks :
        t.task_type = "PUSH" /\ UserKeyOf(t) = u}

\* C6: once every push task submitted for a user has completed, the
\* user's running and total counts of PUSH are both 0.
C6_DrainedUserHasZeroCounts ==
    \A u \in UserKeys :
        PushTasksOf(u) = {} =>
            /\ running_task_user_count["PUSH"][u] = 0
            /\ total_task_user_count["PUSH"][u] = 0

\* key k is neither being submitted, nor queued, nor held by a worker
AtRest(k) ==
    \A t \in QueuedTasks \cup HeldTasks \cup SubmittingTasks : KeyOf(t) # k

\* C3 as stated: whenever (kind, signature) has been submitted twice and is
\* at rest, it was executed once and reported once and the registry does
\* not hold it, however the two calls interleave with the workers.
C3_TwoSubmitsOneExecution ==
    \A k \in Keys :
        (submitted[k] = 2 /\ AtRest(k)) =>
            /\ executed[k] = 1
            /\ reports[k] = 1
            /\ k[2] \notin task_signatures[k[1]]

\* C3 amended: a submit_task call made while the signature is in flight
\* adds no execution and no report: each (kind, signature) at rest was
\* executed and reported once per call that found it absent from the
\* registry, and the registry does not hold it; before that the executions
\* never exceed those calls.
C3_OneExecutionPerAdmittedSubmit ==
    \A k \in Keys :
        /\ executed[k] = reports[k]
        /\ executed[k] <= submitted[k] - resubmitted[k]
        /\ AtRest(k) =>
              /\ executed[k] = submitted[k] - resubmitted[k]
              /\ k[2] \notin task_signatures[k[1]]

\* CREATE_TABLE signature submitted twice, the second call while the first
\* was in flight, now at rest after its one execution
C3_Witness ==
    \E k \in Keys :
        /\ k[1] = "CREATE_TABLE"
        /\ submitted[k] = 2
        /\ resubmitted[k] = 1
        /\ executed[k] = 1
        /\ AtRest(k)
\* every accepted submit of k has had its report handed to _finish_task,
\* and k is out of the registry
FinishedAndRemoved(k) ==
    /\ k[2] \notin task_signatures[k[1]]
    /\ reports[k] = submitted[k] - resubmitted[k]

HasWorkerFor(k) ==
    \E p \in Pools :
        \E t \in {tasks[p][i] : i \in 1..Len(tasks[p])}
                 \cup {s.task : s \in {x \in submitting : x.pool = p}}
                 \cup {agent_task_req[w] : w \in {x \in WorkerIds : PoolOf(x) = p /\ Holding(x)}} :
            /\ KeyOf(t) = k
            /\ \E w \in WorkerIds :
                  /\ PoolOf(w) = p
                  /\ pc[w] \notin {"none", "start"}
                  /\ (priority[w] = "NORMAL" \/ IsHighTask(t))

C14_FinishRpcsOneToThree ==
    \A w \in WorkerIds :
        LET rpcs == finish_rpcs[w]
        IN /\ Len(rpcs) <= 3
           /\ \A i \in 1..(Len(rpcs) - 1) : rpcs[i] # "PALO_SUCCESS"
           /\ pc[w] = "finish" =>
                 /\ Len(rpcs) < 3
                 /\ \A i \in 1..Len(rpcs) : rpcs[i] # "PALO_SUCCESS"
           /\ pc[w] = "remove" =>
                 /\ Len(rpcs) >= 1
                 /\ rpcs[Len(rpcs)] = "PALO_SUCCESS" \/ Len(rpcs) = 3

\* the coordinator failed twice and then succeeded: exactly 3 RPCs were
\* made and _finish_task has returned
C14_Witness ==
    \E w \in WorkerIds :
        /\ pc[w] = "remove"
        /\ finish_rpcs[w] = <<"PALO_ERROR", "PALO_ERROR", "PALO_SUCCESS">>

\* C13: _s_report_version never decreases: every step of a worker or of the
\* tablet reporter leaves it unchanged or increases it by exactly one,
\* whatever the interleaving of the threads.
C13_ReportVersionMonotonic ==
    [][\/ report_version' = report_version
       \/ report_version' = report_version + 1]_vars

\* two workers have each incremented the counter and have not finished
\* yet, and the reporter loaded the value between the two increments
C13_Witness ==
    /\ report_version = 2
    /\ request_report_version = 1
    /\ \E w1, w2 \in WorkerIds :
          /\ w1 # w2
          /\ pc[w1] = "finish" /\ finish_task_request[w1].status_code = "OK"
          /\ pc[w2] = "finish" /\ finish_task_request[w2].status_code = "OK"

\* C12: whenever the NORMAL-lane fair-share computation is evaluated for a
\* queued task, the divisor total[task.kind] is not 0.  The first iteration
\* of the scan always evaluates the computation for the head of the queue
\* (no user is marked improper yet), so in every NORMAL-lane selection the
\* total of the head task's kind must be non-zero.
C12_NoDivisionByZero ==
    [][\A w \in WorkerIds :
          (SelectionBy(w) /\ priority[w] = "NORMAL")
              => total_task_count[tasks[PoolOf(w)][1].task_type] # 0]_vars

\* a selection by the only worker of the push pool (thread_count = 1), in
\* the NORMAL lane, on queue q when exactly the pushes of done have been
\* executed and deregistered
OneWorkerSelection(w, q, done) ==
    /\ SelectionBy(w)
    /\ PoolOf(w) = "PUSH"
    /\ priority[w] = "NORMAL"
    /\ config.push_worker_count_normal_priority = 1
    /\ config.push_worker_count_high_priority = 0
    /\ tasks["PUSH"] = q
    /\ submitting = {}
    /\ \A t \in FairnessSubmits :
          /\ submitted[KeyOf(t)] = 1
          /\ executed[KeyOf(t)] = (IF t \in done THEN 1 ELSE 0)

\* C11 as stated: one NORMAL-lane worker, queue [A, A, B] with
\* total_by_user = {A:2, B:1}; the worker takes the first A, then B, then
\* the second A.
C11_SelectionOrderABA ==
    [][\A w \in WorkerIds :
          /\ (/\ OneWorkerSelection(w, <<PushOf(1, "A"), PushOf(2, "A"),
                                          PushOf(3, "B")>>, {})
              /\ total_task_user_count["PUSH"]["A"] = 2
              /\ total_task_user_count["PUSH"]["B"] = 1)
                => agent_task_req'[w] = PushOf(1, "A")
          /\ OneWorkerSelection(w, <<PushOf(2, "A"), PushOf(3, "B")>>,
                                {PushOf(1, "A")})
                => agent_task_req'[w] = PushOf(3, "B")]_vars

\* C11, amended: in the same scenario the worker takes the tasks in queue
\* order, A, A, B: with one worker no push is running when a selection is
\* made, so the head's user has running count 0 and the head is selected.
C11_SelectionOrderAAB ==
    [][\A w \in WorkerIds :
          /\ (/\ OneWorkerSelection(w, <<PushOf(1, "A"), PushOf(2, "A"),
                                          PushOf(3, "B")>>, {})
              /\ total_task_user_count["PUSH"]["A"] = 2
              /\ total_task_user_count["PUSH"]["B"] = 1)
                => agent_task_req'[w] = PushOf(1, "A")
          /\ OneWorkerSelection(w, <<PushOf(2, "A"), PushOf(3, "B")>>,
                                {PushOf(1, "A")})
                => agent_task_req'[w] = PushOf(2, "A")
          /\ OneWorkerSelection(w, <<PushOf(3, "B")>>,
                                {PushOf(1, "A"), PushOf(2, "A")})
                => agent_task_req'[w] = PushOf(3, "B")]_vars

\* the only worker has executed the first push of A and now holds the
\* second one, taken from the head while the push of B stays queued
C11_Witness ==
    /\ config.push_worker_count_normal_priority = 1
    /\ config.push_worker_count_high_priority = 0
    /\ \E w \in WorkerIds :
          /\ PoolOf(w) = "PUSH"
          /\ pc[w] = "exec"
          /\ agent_task_req[w] = PushOf(2, "A")
    /\ tasks["PUSH"] = <<PushOf(3, "B")>>
    /\ executed[<<"PUSH", 1>>] = 1
    /\ \A t \in FairnessSubmits : submitted[KeyOf(t)] = 1

\* _finish_task has returned for the report of worker w: its last RPC
\* succeeded, or three RPCs were made and all failed
FinishReturned(w) ==
    LET rpcs == finish_rpcs[w]
    IN /\ Len(rpcs) >= 1
       /\ \/ rpcs[Len(rpcs)] = "PALO_SUCCESS"
          \/ /\ Len(rpcs) = 3
             /\ \A i \in 1..3 : rpcs[i] # "PALO_SUCCESS"

\* C15: a worker that holds a task keeps its signature in inflight until
\* _finish_task has returned; the signature leaves inflight only in the
\* step of the worker that follows the return of _finish_task, never before
\* the first finishTask RPC, and that step removes it whether the RPC
\* succeeded or failed three times.
C15_RemovedOnlyAfterFinish ==
    /\ [](\A w \in WorkerIds :
             (Holding(w) /\ ~FinishReturned(w)) =>
                 /\ pc[w] # "remove"
                 /\ agent_task_req[w].signature
                        \in task_signatures[agent_task_req[w].task_type])
    /\ [][\A k \in Keys :
              (k[2] \in task_signatures[k[1]] /\ k[2] \notin task_signatures'[k[1]])
                  => \E w \in WorkerIds :
                        /\ KeyOf(agent_task_req[w]) = k
                        /\ FinishReturned(w)
                        /\ pc[w] = "remove"]_vars
    /\ [][\A w \in WorkerIds :
              (pc[w] = "finish" /\ pc'[w] # "finish") =>
                  /\ pc'[w] = "remove"
                  /\ FinishReturned(w)']_vars
    /\ [][\A w \in WorkerIds :
              (pc[w] = "remove" /\ pc'[w] # "remove") =>
                  agent_task_req[w].signature
                      \notin task_signatures'[agent_task_req[w].task_type]]_vars

\* a clone worker is about to deregister its task after three failed
\* finishTask RPCs
C15_Witness ==
    \E w \in WorkerIds :
        /\ PoolOf(w) = "CLONE"
        /\ pc[w] = "remove"
        /\ finish_rpcs[w] = <<"PALO_ERROR", "PALO_ERROR", "PALO_ERROR">>
        /\ agent_task_req[w].signature \in task_signatures["CLONE"]

\* the name ends in ".hdr"
EndsWithHdr(file_name) ==
    /\ Len(file_name) >= 4
    /\ SubStr(file_name, Len(file_name) - 4, 4) = <<".", "h", "d", "r">>

\* the clone workers that are copying the files of a listing
CloneWorkersCopying ==
    {w \in WorkerIds :
        /\ PoolOf(w) = "CLONE"
        /\ pc[w] \in {"get_length", "download_file", "release_snapshot"}}

\* every file of w's listing whose name does not end in ".hdr" is in the
\* local directory with the reported size
DataFilesComplete(w, dir) ==
    \A i \in 1..Len(clone[w].file_name_list) :
        ~EndsWithHdr(clone[w].file_name_list[i])
            => LocalFile(clone[w].file_name_list[i], TRUE) \in dir

\* C16: within one source-backend attempt, download_file is called for a
\* file whose name ends in ".hdr" only when every other file of the listing
\* has been downloaded with the reported size, and the local directory
\* holds a file whose name ends in ".hdr" only when it holds every other
\* file of the listing with the reported size.  Listings include the
\* 4-character name ".hdr" and the listings of a second source.
C16_HeaderDownloadedLast ==
    /\ [](\A w \in CloneWorkersCopying :
             (\E f \in local_dir : EndsWithHdr(f.name))
                 => DataFilesComplete(w, local_dir))
    /\ [][\A w \in WorkerIds :
              (/\ PoolOf(w) = "CLONE"
               /\ pc[w] = "download_file"
               /\ clone'[w].download_calls = clone[w].download_calls + 1
               /\ EndsWithHdr(clone[w].file_name_list[clone[w].file]))
                  => DataFilesComplete(w, local_dir)]_vars

\* q back to front
Reverse(q) == [i \in 1..Len(q) |-> q[Len(q) + 1 - i]]

\* the names of q that end in ".hdr", and the others, in the order of q
HdrNames(q) == SelectSeq(q, LAMBDA x : EndsWithHdr(x))

DataNames(q) == SelectSeq(q, LAMBDA x : ~EndsWithHdr(x))

\* the names of q that are longer than 4 characters and end in ".hdr", and
\* the others, in the order of q
LongHdrNames(q) == SelectSeq(q, LAMBDA x : Len(x) > 4 /\ EndsWithHdr(x))

OtherNames(q) == SelectSeq(q, LAMBDA x : ~(Len(x) > 4 /\ EndsWithHdr(x)))

\* worker w holds the listing of the files q, one per line
ListingIs(w, q) ==
    \/ clone[w].file_list_str = JoinLines(q)
    \/ clone[w].file_list_str = Append(JoinLines(q), "\n")

\* C17 as stated: the download list is the non-.hdr files in listing order
\* followed by the .hdr files in listing order; for the listing data_0.dat,
\* header.hdr, data_1.dat it is data_0.dat, data_1.dat, header.hdr.
C17_ListingOrderPreserved ==
    \A w \in CloneWorkersCopying :
        /\ \A q \in ListedFiles \ {<<>>} :
              ListingIs(w, q)
                  => clone[w].file_name_list = DataNames(q) \o HdrNames(q)
        /\ ListingIs(w, <<data_0_dat, header_hdr, data_1_dat>>)
              => clone[w].file_name_list = <<data_0_dat, data_1_dat, header_hdr>>

\* C17, amended: the download list is the files that are not taken for
\* header files in reverse listing order, followed by the header files
\* (names longer than 4 characters that end in ".hdr") in listing order;
\* for the listing data_0.dat, header.hdr, data_1.dat it is data_1.dat,
\* data_0.dat, header.hdr.
C17_DataFilesReversedThenHeaders ==
    \A w \in CloneWorkersCopying :
        /\ \A q \in ListedFiles \ {<<>>} :
              ListingIs(w, q)
                  => clone[w].file_name_list
                         = Reverse(OtherNames(q)) \o LongHdrNames(q)
        /\ ListingIs(w, <<data_0_dat, header_hdr, data_1_dat>>)
              => clone[w].file_name_list = <<data_1_dat, data_0_dat, header_hdr>>

\* a clone worker copies the files of the listing data_0.dat, header.hdr,
\* data_1.dat, starting with data_1.dat
C17_Witness ==
    \E w \in CloneWorkersCopying :
        /\ ListingIs(w, <<data_0_dat, header_hdr, data_1_dat>>)
        /\ clone[w].file_name_list = <<data_1_dat, data_0_dat, header_hdr>>
        /\ clone[w].file = 1
        /\ pc[w] = "download_file"

\* the step in which clone worker w calls download_file for its current
\* file
DownloadCallBy(w) ==
    /\ PoolOf(w) = "CLONE"
    /\ pc[w] = "download_file"
    /\ clone'[w].download_calls = clone[w].download_calls + 1

\* C18: a download_file call after which the local file does not have the
\* reported size is a failed attempt: the worker stays on the same file,
\* and it either tries again, when fewer than 3 calls were made for the
\* file, or, after the third call, ends the file loop with PALO_ERROR.  No
\* file is attempted more than 3 times, and once the file loop has ended
\* the worker makes no further download from that source: its next step is
\* the release of the snapshot, which leads to the next source or out of
\* _clone_copy.
C18_SizeMismatchRetriesThenFails ==
    /\ [](\A w \in WorkerIds : clone[w].download_calls <= 3)
    /\ [][\A w \in WorkerIds :
              (/\ DownloadCallBy(w)
               /\ LocalFile(clone[w].file_name_list[clone[w].file], TRUE)
                      \notin local_dir')
                  => /\ clone'[w].file = clone[w].file
                     /\ IF clone'[w].download_calls < 3
                        THEN /\ pc'[w] = "download_file"
                             /\ status'[w] = "PALO_SUCCESS"
                        ELSE /\ pc'[w] = "release_snapshot"
                             /\ status'[w] = "PALO_ERROR"]_vars
    /\ [][\A w \in WorkerIds :
              (pc[w] = "release_snapshot" /\ pc'[w] # pc[w])
                  => /\ pc'[w] = AfterSource(w, status[w])
                     /\ status[w] = "PALO_ERROR" =>
                            \/ pc'[w] = "load_header"
                            \/ /\ pc'[w] = "make_snapshot"
                               /\ clone[w].src
                                      < agent_task_req[w].clone_req.src_backends
                     /\ UNCHANGED <<clone, local_dir, status>>]_vars

\* the third download of the first of several files has left a file of
\* another size: the file loop has ended with PALO_ERROR and the
\* following files have not been downloaded
C18_Witness ==
    \E w \in WorkerIds :
        /\ PoolOf(w) = "CLONE"
        /\ pc[w] = "release_snapshot"
        /\ status[w] = "PALO_ERROR"
        /\ clone[w].download_calls = 3
        /\ clone[w].file = 1
        /\ Len(clone[w].file_name_list) >= 2
        /\ local_dir = {LocalFile(clone[w].file_name_list[1], FALSE)}

\* the step in which clone worker w builds its report, having fetched the
\* info of the local tablet
ReportWithTabletInfoBy(w) ==
    /\ PoolOf(w) = "CLONE"
    /\ pc[w] = "tablet_info"
    /\ pc'[w] = "finish"
    /\ clone'[w].tablet_info \in TTabletInfo

\* C19: when the info of the local tablet was fetched and the request gives
\* both committed_version and committed_version_hash: if the local version
\* is below the committed one, or equal to it with another hash, the
\* worker calls _drop_table and reports RUNTIME_ERROR without tablet
\* infos; if the local version is above the committed one, or equal to it
\* with the same hash, the worker does not drop and reports OK.
C19_StaleCloneDropped ==
    [][\A w \in WorkerIds :
          LET clone_req == agent_task_req[w].clone_req
              tablet_info == clone'[w].tablet_info
              report == finish_task_request'[w]
          IN (/\ ReportWithTabletInfoBy(w)
              /\ clone_req.isset_committed_version
              /\ clone_req.isset_committed_version_hash) =>
                 /\ (\/ tablet_info.version < clone_req.committed_version
                     \/ /\ tablet_info.version = clone_req.committed_version
                        /\ tablet_info.version_hash
                               # clone_req.committed_version_hash)
                       => /\ clone'[w].drop_called
                          /\ report.status_code = "RUNTIME_ERROR"
                          /\ ~report.isset_finish_tablet_infos
                          /\ report.finish_tablet_infos = <<>>
                 /\ (\/ tablet_info.version > clone_req.committed_version
                     \/ /\ tablet_info.version = clone_req.committed_version
                        /\ tablet_info.version_hash
                               = clone_req.committed_version_hash)
                       => /\ ~clone'[w].drop_called
                          /\ report.status_code = "OK"]_vars

\* a clone worker has dropped a tablet whose version is below the
\* committed one and holds the RUNTIME_ERROR report
C19_Witness ==
    \E w \in WorkerIds :
        /\ PoolOf(w) = "CLONE"
        /\ pc[w] = "finish"
        /\ agent_task_req[w].clone_req.committed_version = 2
        /\ agent_task_req[w].clone_req.committed_version_hash = 1
        /\ clone[w].tablet_info = [version |-> 1, version_hash |-> 2]
        /\ clone[w].drop_called
        /\ finish_task_request[w].status_code = "RUNTIME_ERROR"

\* C20: the report a push or clone worker has built carries the status
\* code of the worker's final status: PALO_SUCCESS gives OK,
\* PALO_TASK_REQUEST_ERROR gives ANALYSIS_ERROR, PALO_CREATE_TABLE_EXIST
\* of a clone gives OK, and anything else gives RUNTIME_ERROR.
C20_StatusCodeMapping ==
    \A w \in WorkerIds :
        (PoolOf(w) \in {"PUSH", "CLONE"} /\ pc[w] \in {"finish", "remove"}) =>
            finish_task_request[w].status_code =
                CASE status[w] = "PALO_SUCCESS" -> "OK"
                  [] status[w] = "PALO_TASK_REQUEST_ERROR" -> "ANALYSIS_ERROR"
                  [] status[w] = "PALO_CREATE_TABLE_EXIST" /\ PoolOf(w) = "CLONE"
                        -> "OK"
                  [] OTHER -> "RUNTIME_ERROR"

\* a clone worker reports OK for a tablet that exists while a push worker
\* reports ANALYSIS_ERROR for a request error
C20_Witness ==
    \E w1, w2 \in WorkerIds :
        /\ PoolOf(w1) = "CLONE"
        /\ pc[w1] = "finish"
        /\ status[w1] = "PALO_CREATE_TABLE_EXIST"
        /\ finish_task_request[w1].status_code = "OK"
        /\ PoolOf(w2) = "PUSH"
        /\ pc[w2] = "finish"
        /\ status[w2] = "PALO_TASK_REQUEST_ERROR"
        /\ finish_task_request[w2].status_code = "ANALYSIS_ERROR"

\* the queue position (1-based, 0 for none) the selection rule of the
\* NORMAL lane names from position i on, each task counted under its own
\* user key: a task whose user was marked improper is skipped, a task whose
\* user is not running or is within its share is selected, and the user of
\* any other task is marked improper
RECURSIVE LowestFairIndex(_, _, _, _, _, _, _)
LowestFairIndex(i, q, improper_users, thread_count, tot_user, tot, running) ==
    IF i > Len(q) THEN 0
    ELSE LET u == UserKeyOf(q[i])
             kind == q[i].task_type
         IN IF u \in improper_users
            THEN LowestFairIndex(i + 1, q, improper_users, thread_count,
                                 tot_user, tot, running)
            ELSE IF ~AboveShare(running[kind][u], thread_count,
                                tot_user[kind][u], tot[kind])
            THEN i
            ELSE LowestFairIndex(i + 1, q, improper_users \cup {u},
                                 thread_count, tot_user, tot, running)

\* C21: a NORMAL-lane selection returns the lowest queue index whose task
\* has a user that was not marked improper earlier in the scan and that is
\* not running or is within its share, (running + 1) / thread_count <=
\* total_by_user / total; the users that fail are marked improper and their
\* later tasks skipped.
C21_NormalLaneLowestFairIndex ==
    [][\A w \in WorkerIds :
          (SelectionBy(w) /\ priority[w] = "NORMAL") =>
              LET q == tasks[PoolOf(w)]
                  thread_count == config.push_worker_count_normal_priority
                                      + config.push_worker_count_high_priority
                  lowest == LowestFairIndex(1, q, {}, thread_count,
                                            total_task_user_count,
                                            total_task_count,
                                            running_task_user_count)
              IN lowest # 0 =>
                    /\ index'[w] = lowest - 1
                    /\ agent_task_req'[w] = q[lowest]
                    /\ tasks'[PoolOf(w)] = Erase(q, lowest - 1)]_vars

\* the workers of the push loop that hold a task of the kind counted under
\* user key u
PushLoopHolders(kind, u) ==
    {w \in WorkerIds :
        /\ PoolOf(w) \in PushPools
        /\ Holding(w)
        /\ agent_task_req[w].task_type = kind
        /\ UserKeyOf(agent_task_req[w]) = u}

\* C22: for the PUSH and the DELETE pool, for either lane and for tasks with
\* or without a user, the running count of a key is incremented at selection
\* and decremented at completion under the same key: each count, as the
\* uint32 value it is, equals the number of workers holding a task of that
\* key, so none goes below zero and none stays positive after the tasks of
\* its key have drained.
C22_RunningCountedUnderOneKey ==
    \A kind \in PushPools, u \in UserKeys :
        running_task_user_count[kind][u] = Cardinality(PushLoopHolders(kind, u))

\* C23: a selection that succeeds is one step under the pool mutex: it
\* increments running_by_user of the selected task's user by exactly one,
\* leaves every other count as it was and removes exactly the selected task
\* from the queue, the other queued tasks keeping their relative order; and
\* no two workers hold the same task.
C23_SelectionAtomic ==
    /\ [][\A w \in WorkerIds :
              (SelectionBy(w) /\ pc'[w] = "exec") =>
                  LET q == tasks[PoolOf(w)]
                      t == agent_task_req'[w]
                  IN /\ \E i \in 1..Len(q) :
                           /\ q[i] = t
                           /\ index'[w] = i - 1
                           /\ tasks'[PoolOf(w)] = Erase(q, i - 1)
                     /\ running_task_user_count' =
                            [running_task_user_count EXCEPT
                                ![t.task_type][UserKeyOf(t)] = @ + 1]]_vars
    /\ [](\A w1, w2 \in WorkerIds :
             (w1 # w2 /\ Holding(w1) /\ Holding(w2))
                 => KeyOf(agent_task_req[w1]) # KeyOf(agent_task_req[w2]))

\* the worker threads of the push pool that start() spawned and that are in
\* the given lane
PushPoolLane(lane) ==
    {w \in WorkerIds : PoolOf(w) = "PUSH" /\ pc[w] # "none" /\ priority[w] = lane}

\* C24: once every worker of the PUSH and of the DELETE pool has passed the
\* lane assignment, exactly push_worker_count_high_priority workers of the
\* push pool are in the HIGH lane and push_worker_count_normal_priority are
\* in the NORMAL lane, in whatever order the workers of the two pools
\* started.
C24_PushPoolLaneCounts ==
    (\A w \in WorkerIds : PoolOf(w) \in PushPools => pc[w] # "start") =>
        /\ Cardinality(PushPoolLane("HIGH"))
               = config.push_worker_count_high_priority
        /\ Cardinality(PushPoolLane("NORMAL"))
               = config.push_worker_count_normal_priority

\* number of executions made so far
TotalExecuted == SumOver(executed, Keys)

\* the push pool has a started worker in the NORMAL lane
HasNormalLaneWorker ==
    \E w \in WorkerIds :
        PoolOf(w) = "PUSH" /\ pc[w] \notin {"none", "start"} /\ priority[w] = "NORMAL"

\* C25: under fair scheduling, when the push queue is not empty and the
\* pool has a NORMAL-lane worker, some queued task is eventually selected
\* and executed, also while HIGH-lane workers keep finding no HIGH task;
\* and a NORMAL-lane worker blocked on the condition variable does not stay
\* blocked while the queue is not empty.
C25_QueuedTaskEventuallyExecuted ==
    /\ \A n \in 0..(MaxSubmits - 1) :
          (tasks["PUSH"] # <<>> /\ HasNormalLaneWorker /\ TotalExecuted = n)
              ~> (TotalExecuted > n)
    /\ \A w \in {"PUSH"} \X (1..MaxPushWorkers) :
          (priority[w] = "NORMAL" /\ pc[w] = "wait" /\ tasks["PUSH"] # <<>>)
              ~> (pc[w] # "wait" \/ tasks["PUSH"] = <<>>)

\* a HIGH-lane worker has found no HIGH task and sleeps, and the
\* NORMAL-lane worker executes a task whose priority is not HIGH
C25_Witness ==
    \E w1, w2 \in WorkerIds :
        /\ PoolOf(w1) = "PUSH" /\ PoolOf(w2) = "PUSH"
        /\ priority[w1] = "HIGH" /\ pc[w1] = "sleep" /\ index[w1] = -1
        /\ priority[w2] = "NORMAL" /\ pc[w2] = "exec"
        /\ ~IsHighTask(agent_task_req[w2])

\* C26: for a LOAD or LOAD_DELETE push whose Pusher::init succeeded, the
\* process step is attempted again after PALO_ERROR, up to PUSH_MAX_RETRY
\* (1) additional time, and any other outcome ends the attempts at once:
\* when the attempts have ended, at most 1 + PUSH_MAX_RETRY were made, every
\* one before the last returned PALO_ERROR, and the last one returned
\* something else or was attempt number 1 + PUSH_MAX_RETRY.
C26_ProcessRetriedOnce ==
    \A w \in WorkerIds :
        LET calls == push[w].process_calls
        IN /\ Len(calls) <= 1 + PUSH_MAX_RETRY
           /\ \A i \in 1..(Len(calls) - 1) : calls[i] = "PALO_ERROR"
           /\ (push[w].phase = "done" /\ Len(calls) >= 1) =>
                 \/ calls[Len(calls)] # "PALO_ERROR"
                 \/ Len(calls) = 1 + PUSH_MAX_RETRY

\* the count maps and the signature registry
SharedMaps ==
    {"_s_task_signatures", "_s_total_task_user_count",
     "_s_total_task_count", "_s_running_task_user_count"}

\* The accesses to the shared maps of the step thread t is about to take,
\* as pairs <<map, "read" or "write">>: the statements between t's position
\* and the next acquisition or release of a mutex.
Accesses(t) ==
    IF t \in WorkerIds
    THEN CASE pc[t] \in {"rate", "test"} ->
                 {"_s_total_task_user_count", "_s_total_task_count",
                  "_s_running_task_user_count"} \X {"read"}
           [] pc[t] = "mark_write" ->
                 {<<"_s_running_task_user_count", "write">>}
           [] pc[t] = "remove_info" ->
                 IF agent_task_req[t].task_type = "PUSH"
                 THEN {"_s_task_signatures", "_s_total_task_user_count",
                       "_s_total_task_count"} \X {"write"}
                 ELSE {<<"_s_task_signatures", "write">>}
           [] pc[t] = "remove_running" ->
                 {<<"_s_running_task_user_count", "write">>}
           [] OTHER -> {}
    ELSE IF t \in Submitters
    THEN IF submit_call[t].pc # "record" THEN {}
         ELSE IF submit_call[t].task.signature
                     \in task_signatures[submit_call[t].task.task_type]
         THEN {<<"_s_task_signatures", "read">>}
         ELSE IF submit_call[t].task.task_type = "PUSH"
         THEN {"_s_task_signatures", "_s_total_task_user_count",
               "_s_total_task_count"} \X {"write"}
         ELSE {<<"_s_task_signatures", "write">>}
    ELSE IF report_task = "set_tasks"
    THEN {<<"_s_task_signatures", "read">>}
    ELSE {}

\* thread t1 is about to write map m, thread t2 is about to read or write
\* it, and no mutex is held by both
Unprotected(t1, t2, m) ==
    /\ t1 # t2
    /\ <<m, "write">> \in Accesses(t1)
    /\ \E a \in Accesses(t2) : a[1] = m
    /\ Held(t1) \cap Held(t2) = {}

\* C27: every read and every write of the signature registry and of the
\* three count maps is made under a mutex that excludes every concurrent
\* write of the same map: in no reachable state is one thread about to write
\* a map while another thread is about to read or write it and the two hold
\* no mutex in common.
C27_MapsAccessedUnderExcludingMutex ==
    \A t1, t2 \in Threads, m \in SharedMaps : ~Unprotected(t1, t2, m)

\* the mutex thread t is blocked on, or "NONE"
Wanted(t) ==
    IF t \in WorkerIds
    THEN CASE pc[t] \in {"idle", "start"} -> PoolOf(t)
           [] pc[t] \in {"rate_lock", "remove"} -> "_s_task_signatures_lock"
           [] pc[t] \in {"mark", "remove_running_lock"} ->
                 "_s_running_task_user_count_lock"
           [] OTHER -> "NONE"
    ELSE IF t \in Submitters
    THEN CASE submit_call[t].pc = "enqueue_lock" -> submit_call[t].task.task_type
           [] OTHER -> "NONE"
    ELSE IF report_task = "idle" THEN "_s_task_signatures_lock" ELSE "NONE"

\* threads that wait for a mutex another thread holds
Blocked ==
    {t \in Threads : Wanted(t) # "NONE" /\ lock_owner[Wanted(t)] \notin {NoThread, t}}

\* a set of threads each of which waits for a mutex held by one of the set
Deadlocked(D) ==
    /\ D # {}
    /\ \A t \in D : lock_owner[Wanted(t)] \in D

\* thread t acquires mutex l in this step
Acquires(t, l) == lock_owner[l] # t /\ lock_owner'[l] = t

\* C28: no thread acquires a pool mutex while it holds the registry mutex or
\* the running-count mutex, and none acquires the registry mutex while it
\* holds the running-count mutex; and no set of submitters, workers and the
\* task reporter is ever deadlocked on these mutexes.
C28_LockOrderAndNoDeadlock ==
    /\ [][\A t \in Threads, l \in Locks :
            Acquires(t, l) =>
               /\ l \in Pools =>
                     /\ lock_owner["_s_task_signatures_lock"] # t
                     /\ lock_owner["_s_running_task_user_count_lock"] # t
               /\ l = "_s_task_signatures_lock" =>
                     lock_owner["_s_running_task_user_count_lock"] # t]_vars
    /\ [](\A D \in SUBSET Blocked : ~Deadlocked(D))

\* Nested mutexes under contention: a worker in _remove_task_info holds the
\* registry mutex and the running-count mutex; another worker, in
\* _get_next_task_index under its pool's mutex, waits for the running-count
\* mutex; and the task reporter waits for the registry mutex.
C28_Witness ==
    \E w1, w2 \in WorkerIds :
        /\ pc[w1] = "remove_running"
        /\ lock_owner["_s_task_signatures_lock"] = w1
        /\ lock_owner["_s_running_task_user_count_lock"] = w1
        /\ pc[w2] = "mark"
        /\ lock_owner[PoolOf(w2)] = w2
        /\ {w2, ReportTaskThread} \subseteq Blocked

\* the pools whose callbacks are not the push callback
NonPushPools == AllPools \ PushPools

\* C29: in every pool other than the push and delete pools the queue
\* changes only by an append at its back (submit_task) or by a worker of
\* the pool taking its head: a task is dequeued only when every task
\* enqueued before it in the pool has been dequeued.
C29_NonPushPoolsAreFifo ==
    [][\A p \in NonPushPools :
          tasks'[p] # tasks[p] =>
             \/ /\ Len(tasks'[p]) = Len(tasks[p]) + 1
                /\ SubSeq(tasks'[p], 1, Len(tasks[p])) = tasks[p]
             \/ /\ tasks[p] # <<>>
                /\ tasks'[p] = Tail(tasks[p])
                /\ \E w \in AllWorkerIds :
                      /\ PoolOf(w) = p
                      /\ pc[w] = "idle" /\ pc'[w] = "exec"
                      /\ agent_task_req'[w] = Head(tasks[p])]_vars

\* the alter worker holds the task with signature 1 while the task with
\* signature 2, submitted to the same pool, is still queued
C29_Witness ==
    \E w \in AllWorkerIds :
        /\ PoolOf(w) = "ALTER_TABLE"
        /\ pc[w] = "exec"
        /\ agent_task_req[w].signature = 1
        /\ Len(tasks["ALTER_TABLE"]) = 1
        /\ tasks["ALTER_TABLE"][1].signature = 2

\* the alter engine operation (schema_change or create_rollup_table) is
\* invoked and returns success
AlterEngineSucceeded(alter_table_status, drop_status, ret) ==
    /\ alter_table_status \in {"ALTER_TABLE_DONE", "ALTER_TABLE_FAILED",
                               "ALTER_TABLE_WAITING"}
    /\ alter_table_status = "ALTER_TABLE_FAILED" => drop_status = "PALO_SUCCESS"
    /\ ret = "OLAP_SUCCESS"

\* the drop of the failed tablet or the alter engine operation is invoked
\* and fails
AlterFailed(alter_table_status, drop_status, ret) ==
    \/ alter_table_status = "ALTER_TABLE_FAILED" /\ drop_status # "PALO_SUCCESS"
    \/ /\ alter_table_status \in {"ALTER_TABLE_DONE", "ALTER_TABLE_FAILED",
                                  "ALTER_TABLE_WAITING"}
       /\ ret # "OLAP_SUCCESS"

AlterReported(w) ==
    /\ PoolOf(w) = "ALTER_TABLE"
    /\ pc[w] \in {"finish", "remove"}
    /\ alter.phase = "done"

\* C31: an alter task is reported OK only if schema_change or
\* create_rollup_table was invoked for it and returned success, and
\* report_version changes only in a step after which that is the case; so
\* a task whose prior alter status is none of DONE, FAILED and WAITING is
\* not reported OK and does not increment report_version.
C31_AlterOkOnlyAfterEngineSuccess ==
    /\ [](\A w \in AllWorkerIds :
             (AlterReported(w) /\ finish_task_request[w].status_code = "OK")
                => (alter.engine_called /\ alter.ret = "OLAP_SUCCESS"))
    /\ [][report_version' # report_version
             => (alter'.engine_called /\ alter'.ret = "OLAP_SUCCESS")]_vars

\* C32: when the alter engine operation has succeeded and _get_tablet_info
\* has failed, the report has status OK and no finish_tablet_infos.
C32_AlterLookupFailureReportsOk ==
    \A w \in AllWorkerIds :
        (/\ AlterReported(w)
         /\ alter.engine_called /\ alter.ret = "OLAP_SUCCESS"
         /\ alter.get_tablet_info_called /\ alter.status # "PALO_SUCCESS")
        => /\ finish_task_request[w].status_code = "OK"
           /\ finish_task_request[w].finish_tablet_infos = <<>>

C34_InvalidAlterKindIsAnalysisError ==
    \A w \in AllWorkerIds :
        (/\ PoolOf(w) = "ALTER_TABLE"
         /\ pc[w] \in {"exec", "finish", "remove"}
         /\ agent_task_req[w].task_type \notin AlterTaskTypes)
        => /\ ~alter.drop_called /\ ~alter.engine_called
           /\ pc[w] \in {"finish", "remove"} =>
                 /\ finish_task_request[w].task_type = agent_task_req[w].task_type
                 /\ finish_task_request[w].signature = agent_task_req[w].signature
                 /\ finish_task_request[w].status_code = "ANALYSIS_ERROR"

\* the source backend the for loop of _clone_copy is on has completed
\* make_snapshot, the listing and the download of every listed file
SourceCompleted(w) ==
    /\ clone[w].src >= 1
    /\ clone[w].snapshot_made
    /\ clone[w].listed
    /\ clone[w].downloaded = Len(clone[w].file_name_list)

\* C35: the source backends are contacted in the listed order; an
\* iteration of the for loop that ends with a failure (make_snapshot
\* failed or returned no path, the listing or a download failed after its
\* retries) is followed by the next source when there is one, and one that
\* ends with success by no further source; and _clone_copy returns
\* PALO_SUCCESS only when a source has completed make_snapshot, the listing
\* and every download.
C35_SourcesInOrderUntilSuccess ==
    /\ [][\A w \in WorkerIds :
             PoolOf(w) = "CLONE" =>
                /\ clone'[w].src # clone[w].src =>
                      \/ clone'[w] = NoClone
                      \/ /\ clone'[w].src = clone[w].src + 1
                         /\ clone'[w].src <= agent_task_req[w].clone_req.src_backends
                /\ (/\ pc[w] \in {"make_snapshot", "release_snapshot"}
                    /\ pc'[w] \in {"make_snapshot", "load_header"}) =>
                      /\ pc'[w] = "make_snapshot" <=>
                            /\ status'[w] # "PALO_SUCCESS"
                            /\ clone'[w].src < agent_task_req[w].clone_req.src_backends
                      /\ status'[w] = "PALO_SUCCESS" <=>
                            /\ clone'[w].snapshot_made
                            /\ clone'[w].listed
                            /\ clone'[w].downloaded = Len(clone'[w].file_name_list)]_vars
    /\ [](\A w \in WorkerIds :
             (/\ PoolOf(w) = "CLONE"
              /\ pc[w] = "load_header"
              /\ status[w] = "PALO_SUCCESS") => SourceCompleted(w))

\* C36: when get_table finds the tablet, obtain_shard_path, make_snapshot,
\* the listing, the downloads and load_header are not called, and the
\* report is OK and carries the tablet info.
C36_ExistingTabletReportsOk ==
    \A w \in WorkerIds :
        (PoolOf(w) = "CLONE" /\ clone[w].tablet_exists) =>
           /\ ~clone[w].shard_path_called
           /\ clone[w].src = 0 /\ ~clone[w].snapshot_made /\ ~clone[w].listed
           /\ clone[w].download_calls = 0 /\ clone[w].downloaded = 0
           /\ ~clone[w].load_header_called
           /\ pc[w] \in {"finish", "remove"} =>
                 /\ finish_task_request[w].status_code = "OK"
                 /\ finish_task_request[w].finish_tablet_infos
                        = <<clone[w].tablet_info>>

\* C36, amended: when get_table finds the tablet, obtain_shard_path,
\* make_snapshot, the listing, the downloads and load_header are not
\* called; the report is OK with the tablet info when _get_tablet_info
\* succeeded and the tablet was not dropped as stale, and RUNTIME_ERROR
\* without tablet infos otherwise.
C36_ExistingTabletShortCircuits ==
    \A w \in WorkerIds :
        (PoolOf(w) = "CLONE" /\ clone[w].tablet_exists) =>
           /\ ~clone[w].shard_path_called
           /\ clone[w].src = 0 /\ ~clone[w].snapshot_made /\ ~clone[w].listed
           /\ clone[w].download_calls = 0 /\ clone[w].downloaded = 0
           /\ ~clone[w].load_header_called
           /\ pc[w] \in {"finish", "remove"} =>
                 IF clone[w].tablet_info # NoTabletInfo /\ ~clone[w].drop_called
                 THEN /\ finish_task_request[w].status_code = "OK"
                      /\ finish_task_request[w].finish_tablet_infos
                             = <<clone[w].tablet_info>>
                 ELSE /\ finish_task_request[w].status_code = "RUNTIME_ERROR"
                      /\ finish_task_request[w].finish_tablet_infos = <<>>

\* the report of a clone with one source backend whose tablet exists: OK
\* with the tablet info, and nothing was copied
C36_Witness ==
    \E w \in WorkerIds :
        /\ PoolOf(w) = "CLONE"
        /\ pc[w] = "finish"
        /\ agent_task_req[w].clone_req.src_backends = 1
        /\ clone[w].tablet_exists
        /\ clone[w].src = 0
        /\ finish_task_request[w].status_code = "OK"
        /\ finish_task_request[w].finish_tablet_infos = <<clone[w].tablet_info>>
        /\ clone[w].tablet_info \in TTabletInfo

\* C40: the clone worker is past _clone_copy with PALO_SUCCESS, or has
\* called load_header, only when a source backend was contacted whose
\* listing named at least one file and from which at least one file was
\* downloaded.
C40_SuccessNeedsDownloadedFile ==
    \A w \in WorkerIds :
        (/\ PoolOf(w) = "CLONE"
         /\ \/ pc[w] = "load_header" /\ status[w] = "PALO_SUCCESS"
            \/ clone[w].load_header_called) =>
           /\ clone[w].src >= 1
           /\ clone[w].listed
           /\ Len(clone[w].file_name_list) >= 1
           /\ clone[w].downloaded >= 1

\* ---------------------------------------------------------------- C37
\* C37: the disk reporter and the tablet reporter never call report() while
\* the coordinator's port is 0; the task reporter goes from the head of its
\* loop to report() whatever the port; a cycle of the tablet reporter in
\* which report_all_tablets_info failed reaches its wait without a report
\* sent, and every wait of a reporter is followed by the next cycle.
C37_ReportersGatedByPort ==
    /\ [](\A r \in {"REPORT_DISK_STATE", "REPORT_OLAP_TABLE"} :
             /\ 0 \notin reporter[r].reported
             /\ reporter[r].pc = "report" => master_port # 0)
    /\ [](LET t == reporter["REPORT_OLAP_TABLE"] IN
             (t.pc = "wait" /\ t.report_all_tablets_info_status # "OLAP_SUCCESS")
                 => ~t.sent)
    /\ [][/\ (reporter["REPORT_TASK"].pc = "top"
                  /\ reporter'["REPORT_TASK"] # reporter["REPORT_TASK"])
               => reporter'["REPORT_TASK"].pc = "report"
           /\ \A r \in Reporters :
                 (reporter[r].pc = "wait" /\ reporter'[r] # reporter[r])
                     => reporter'[r].pc = "top"
           /\ LET t == reporter["REPORT_OLAP_TABLE"] IN
                 (t.pc = "wait" /\ t.report_all_tablets_info_status # "OLAP_SUCCESS")
                     => reporter'["REPORT_OLAP_TABLE"].reported = t.reported]_vars

\* the task reporter has reported with port 0, the disk reporter has slept
\* on port 0 and reported after the heartbeat, and the tablet reporter has
\* started a second cycle after one in which the enumeration failed
C37_Witness ==
    /\ 0 \in reporter["REPORT_TASK"].reported
    /\ reporter["REPORT_DISK_STATE"].reported # {}
    /\ master_port # 0
    /\ reporter["REPORT_OLAP_TABLE"].report_all_tablets_info_status = "OLAP_ERROR"
    /\ reporter["REPORT_OLAP_TABLE"].waited # {}
    /\ reporter["REPORT_OLAP_TABLE"].reported = {}
    /\ reporter["REPORT_OLAP_TABLE"].pc = "top"

\* ---------------------------------------------------------------- C38
\* C38: every wait between two cycles of a reporter lasts the interval its
\* own pool is configured with.
C38_OwnInterval ==
    \A r \in Reporters :
        reporter[r].waited \subseteq {reporter[r].interval_seconds}

\* ---------------------------------------------------------------- C39
\* C39: when the engine call of a worker has thrown, the worker's next step
\* is to _finish_task with a RUNTIME_ERROR report for the task it holds; no
\* worker thread is ended by the exception, and the task is deregistered
\* by the time the worker is back at the head of its loop.
C39_ExceptionBecomesRuntimeError ==
    /\ [](\A w \in AllWorkerIds : pc[w] # "terminated")
    /\ [][\A w \in AllWorkerIds :
             (pc[w] = "thrown" /\ pc'[w] # "thrown")
                 => /\ pc'[w] = "finish"
                    /\ finish_task_request'[w].status_code = "RUNTIME_ERROR"
                    /\ finish_task_request'[w].signature = agent_task_req[w].signature
                    /\ finish_task_request'[w].task_type = agent_task_req[w].task_type]_vars

====
